---- MODULE Spec2Model ----
(***************************************************************************)
(* SkillMap AI backend: the assessment lifecycle (AssessmentService,       *)
(* CognitiveService) and the learning-path scheduler (RecommenderService). *)
(*                                                                         *)
(* Numbers are fixed point: theta, alpha, level, difficulty, readiness and *)
(* proficiency are in thousandths; gaps are in tenths of a level; time is  *)
(* in ticks of 1/50 minute (so that max_hours given in thousandths of an   *)
(* hour is 3 ticks per unit).                                              *)
(***************************************************************************)
EXTENDS Integers, Sequences, FiniteSets, TLC

VARIABLES
    llm,            \* AssessmentService.llm is not None
    profiles,       \* employee_profile rows: employee_id -> cognitive_profile
    assessments,    \* skill_assessment rows: assessment_id -> row
    clock,          \* datetime.utcnow(), a logical clock
    ret,            \* the value the last finished call returned or raised
    sub,            \* per request: the locals of a submit_assessment in flight
    profileWrites,  \* history: assessment_id -> number of submit_assessment
                    \* calls for it whose profile update was committed
    successes,      \* history: assessment_id -> number of submit_assessment
                    \* calls for it that returned a result
    modules,        \* learning_module rows: module_id -> row
    path,           \* the locals of a generate_learning_path in flight
    calls,          \* history: number of generate_learning_path calls started,
                    \* or of profile updates made outside an assessment
    required        \* strategic_goal_required_skill rows of the goal, in
                    \* the order a query returns them

avars == <<llm, profiles, assessments, clock, ret, sub, profileWrites, successes>>
pvars == <<modules, path, calls>>
gvars == <<required>>
vars == <<avars, pvars, gvars>>

-----------------------------------------------------------------------------
(* Bounds of the model *)

MaxAssessments == 1

EmployeeIds == {"e1", "e2"}
SkillIds == {"s1", "s2", "s9"}
SkillTable == {"s1", "s2"}       \* the rows of table skill
Requests == {1, 2}              \* concurrent HTTP requests (one db session each)
None == "None"           \* "no error" in a returned value
Null == << >>           \* a column or argument that is None
Some(x) == <<x>>        \* a column or argument that holds x

-----------------------------------------------------------------------------
(* Strings: str.lower() and str.strip() on the strings the model uses *)

lower(s) ==
    CASE s = "A" -> "a"
      [] s = "B" -> "b"
      [] s = "T1 " -> "t1 "
      [] OTHER -> s

strip(s) ==
    CASE s = "t1 " -> "t1"
      [] s = "T1 " -> "T1"
      [] OTHER -> s

Options == <<"a", "b", "c", "d">>

MCQ(id, text, corr, diff) ==
    [question_id |-> id, question |-> text, options |-> Options,
     correct_answer_id |-> corr, difficulty |-> diff, explanation |-> "why"]

\* Questions the question-generation oracle may put in its "questions" list.
Q1 == MCQ("q1", "t1", "a", 2500)
Q2 == MCQ("q2", "t2", "B", 3500)
Q1Again == MCQ("q3", "T1 ", "b", 1500)      \* the text of Q1, written differently

\* The oracle's reply: text that is not JSON, or a JSON object with a
\* "questions" list (absent = []).
InvalidJSON == [valid |-> FALSE, questions |-> << >>]
QuestionLists == { << >>, <<Q1, Q2>>, <<Q1, Q1Again>> }
OracleReplies == { InvalidJSON } \cup { [valid |-> TRUE, questions |-> qs] : qs \in QuestionLists }

\* The answers a caller submits: question_id -> option_id.
AnswerMaps ==
    { [q \in {"q1", "q2"} |-> IF q = "q1" THEN "A" ELSE "b"],
      [q \in {"q1"} |-> "b"],
      [q \in {"q1", "q2"} |-> "a"] }

Range(s) == { s[i] : i \in DOMAIN s }

-----------------------------------------------------------------------------
(* CognitiveService: 2PL IRT in fixed point (thousandths) *)

Steps == 15         \* _update_theta(steps=15)
LrInverse == 100    \* _update_theta(lr=0.01)
DefaultAlpha == 1000
MaxLevel == 5000
ThetaShift == 3000  \* level = ((theta + 3) / 6) * 5
ThetaSpan == 6
LevelSpan == 5

Max(a, b) == IF a >= b THEN a ELSE b
Min(a, b) == IF a <= b THEN a ELSE b

\* Division that rounds toward zero, as the float result would when cut.
Quot(a, b) == IF a >= 0 THEN a \div b ELSE -((-a) \div b)

\* 1000 / (1 + e^(-z)) at z = -6, -5, ..., 6.
LogisticTable == <<2, 7, 18, 47, 119, 269, 500, 731, 881, 953, 982, 993, 998>>

\* Floating point: 1.0 + exp(-z) is exactly 1.0 once exp(-z) < 2^-53, that is
\* from z = 53 ln 2 = 36.737 on; math.exp(-z) raises OverflowError once
\* -z > 709.782.
SaturationZ == 36737
OverflowZ == 709783

\* 1 / (1 + exp(-z)), z in thousandths, linear between the table's points;
\* beyond the table the value stays at its last point until the float result
\* is exactly 1.0.
Logistic(z) ==
    IF z >= SaturationZ THEN 1000
    ELSE IF z <= -6000 THEN LogisticTable[1]
    ELSE IF z >= 6000 THEN LogisticTable[13]
    ELSE LET k == z \div 1000
             lo == LogisticTable[k + 7]
             hi == LogisticTable[k + 8]
         IN lo + ((hi - lo) * (z - 1000 * k)) \div 1000

_irt_probability(theta, alpha, beta) == Logistic(Quot(alpha * (theta - beta), 1000))

\* responses: sequence of <<alpha, beta, correct>>
RECURSIVE Gradient(_, _, _)
Gradient(t, responses, i) ==
    IF i > Len(responses) THEN 0
    ELSE LET r == responses[i]
             p == _irt_probability(t, r[1], r[2])
             c == IF r[3] THEN 1000 ELSE 0
         IN Quot((c - p) * r[1], 1000) + Gradient(t, responses, i + 1)

\* The loop of _update_theta on t in millionths: a step lr * grad moves t by
\* less than a thousandth when p is close to the answer.
MicroPerMilli == 1000

RECURSIVE ThetaSteps(_, _, _)
ThetaSteps(t, responses, n) ==
    IF n = 0 THEN t
    ELSE ThetaSteps(t + Gradient(Quot(t, MicroPerMilli), responses, 1)
                           * (MicroPerMilli \div LrInverse),
                    responses, n - 1)

\* math.exp(-z) overflows for one of the responses (line 24): the call raises.
Overflows(theta, responses) ==
    \E i \in DOMAIN responses :
       Quot(responses[i][1] * (theta - responses[i][2]), 1000) <= 0 - OverflowZ

ErrOverflow == "math range error"

\* The returned theta in millionths, and cut to the thousandths a stored
\* profile is kept in.
_update_theta_micro(theta, responses) ==
    ThetaSteps(theta * MicroPerMilli, responses, Steps)

_update_theta(theta, responses) ==
    Quot(_update_theta_micro(theta, responses), MicroPerMilli)

LevelOfTheta_Unclamped(theta) ==
    Quot((theta + ThetaShift) * LevelSpan, ThetaSpan)

LevelOfTheta(theta) ==
    Max(0, Min(MaxLevel, Quot((theta + ThetaShift) * LevelSpan, ThetaSpan)))

DefaultState == [theta |-> 0, alpha |-> DefaultAlpha, level |-> 0]

ItemsOf(items, skill_id) == SelectSeq(items, LAMBDA i : i.skill_id = skill_id)

StateOf(profile, skill_id) ==
    IF skill_id \in DOMAIN profile THEN profile[skill_id] ELSE DefaultState

ResponsesOf(profile, items, skill_id) ==
    LET state == StateOf(profile, skill_id)
        mine == ItemsOf(items, skill_id)
    IN [k \in 1..Len(mine) |-> <<state.alpha, mine[k].difficulty, mine[k].correct>>]

\* Mutant: the updated entry is written with the default discrimination.
UpdatedState_DefaultAlpha(profile, items, skill_id) ==
    LET state == StateOf(profile, skill_id)
        theta == _update_theta(state.theta, ResponsesOf(profile, items, skill_id))
    IN [theta |-> theta, alpha |-> DefaultAlpha, level |-> LevelOfTheta(theta)]

\* Lines 57-63: the entry of one skill of the batch after the update.
UpdatedState(profile, items, skill_id) ==
    LET state == StateOf(profile, skill_id)
        theta == _update_theta(state.theta, ResponsesOf(profile, items, skill_id))
    IN [theta |-> theta, alpha |-> state.alpha, level |-> LevelOfTheta(theta)]

ErrEmployeeNotFound == "Employee not found"

\* update_profile on the table `profs`: the error raised (None if none), the
\* table after the commit and the profile returned.
update_profile(profs, employee_id, items) ==
    IF employee_id \notin DOMAIN profs
    THEN [err |-> ErrEmployeeNotFound, profiles |-> profs, profile |-> << >>]
    ELSE LET profile == profs[employee_id]
             grouped == { items[k].skill_id : k \in DOMAIN items }
             updated == [s \in (DOMAIN profile) \cup grouped |->
                            IF s \in grouped THEN UpdatedState(profile, items, s)
                            ELSE profile[s]]
         IN IF \E s \in grouped :
                  Overflows(StateOf(profile, s).theta, ResponsesOf(profile, items, s))
            THEN [err |-> ErrOverflow, profiles |-> profs, profile |-> << >>]
            ELSE [err |-> None,
                  profiles |-> [profs EXCEPT ![employee_id] = updated],
                  profile |-> updated]

-----------------------------------------------------------------------------
(* AssessmentService *)

ReadinessInputs == { Null, Some(500) }   \* readiness_score: absent, or 0.5

ErrNoLLM == "LLM service is required for dynamic test generation"
ErrSkillNotFound == "Skill not found"
ErrInvalidJSON == "Failed to generate assessment: Invalid JSON response from AI"
ErrAssessmentNotFound == "Assessment not found"
ErrNotOwner == "Assessment does not belong to this employee"
ErrCompleted == "Assessment already completed"
ErrNoQuestions == "Assessment has no questions"

Raise(op, msg) == [op |-> op, err |-> msg]

\* The "Remove duplicates" loop: first occurrence of each lowered, stripped text.
RECURSIVE Dedupe(_, _, _)
Dedupe(questions, i, seen) ==
    IF i > Len(questions) THEN << >>
    ELSE LET q_text == strip(lower(questions[i].question))
         IN IF q_text # "" /\ q_text \notin seen
            THEN <<questions[i]>> \o Dedupe(questions, i + 1, seen \cup {q_text})
            ELSE Dedupe(questions, i + 1, seen)

ReadinessOfTheta(theta) == Max(0, Min(1000, Quot(theta + ThetaShift, ThetaSpan)))

BaseDifficulty(readiness_score) == 1000 + (1000 - readiness_score) * 3

CurrentTheta(profs, employee_id, skill_id) ==
    IF skill_id \in DOMAIN profs[employee_id] THEN profs[employee_id][skill_id].theta ELSE 0

\* Mutant: the row is created with status "in_progress".
NewAssessment_InProgress(employee_id, skill_id, unique_questions, readiness_score) ==
    [employee_id |-> employee_id, skill_id |-> skill_id,
     questions |-> unique_questions, answers |-> Null, correct_answers |-> Null,
     score |-> Null, difficulty_level |-> BaseDifficulty(readiness_score),
     readiness_score |-> readiness_score, status |-> "in_progress",
     completed_at |-> Null]

NewAssessment(employee_id, skill_id, unique_questions, readiness_score) ==
    [employee_id |-> employee_id, skill_id |-> skill_id,
     questions |-> unique_questions, answers |-> Null, correct_answers |-> Null,
     score |-> Null, difficulty_level |-> BaseDifficulty(readiness_score),
     readiness_score |-> readiness_score, status |-> "pending",
     completed_at |-> Null]

generate_assessment(employee_id, skill_id, names_given, readiness_in, reply) ==
    /\ UNCHANGED <<llm, profiles, clock, sub, profileWrites, successes>>
    /\ IF ~llm THEN
          /\ ret' = Raise("generate", ErrNoLLM)
          /\ UNCHANGED assessments
       ELSE IF ~names_given /\ skill_id \notin SkillTable THEN
          /\ ret' = Raise("generate", ErrSkillNotFound)
          /\ UNCHANGED assessments
       ELSE IF readiness_in = Null /\ employee_id \notin DOMAIN profiles THEN
          /\ ret' = Raise("generate", ErrEmployeeNotFound)
          /\ UNCHANGED assessments
       ELSE IF ~reply.valid THEN
          /\ ret' = Raise("generate", ErrInvalidJSON)
          /\ UNCHANGED assessments
       ELSE
          LET readiness_score ==
                  IF readiness_in = Null
                  THEN ReadinessOfTheta(CurrentTheta(profiles, employee_id, skill_id))
                  ELSE readiness_in[1]
              unique_questions == Dedupe(reply.questions, 1, {})
              assessment == NewAssessment(employee_id, skill_id, unique_questions,
                                          readiness_score)
          IN /\ Len(assessments) < MaxAssessments
             /\ assessments' = Append(assessments, assessment)
             /\ ret' = [op |-> "generate", err |-> None,
                        assessment_id |-> Len(assessments) + 1,
                        skill_id |-> skill_id,
                        questions |-> unique_questions,
                        difficulty_level |-> assessment.difficulty_level]

\* --- submit_assessment, in the segments between its commits ---------------

\* answers.get(q_id, "")
AnswerFor(answers, q_id) == IF q_id \in DOMAIN answers THEN answers[q_id] ELSE ""

IsCorrect(q, answers) ==
    lower(AnswerFor(answers, q.question_id)) = lower(q.correct_answer_id)

CorrectCount(questions, answers) ==
    Cardinality({ k \in DOMAIN questions : IsCorrect(questions[k], answers) })

\* percentage_correct = correct_count / total_questions * 100, compared exactly
ProficiencyScore(correct_count, total_questions) ==
    IF 100 * correct_count < 20 * total_questions THEN 1000
    ELSE IF 100 * correct_count < 40 * total_questions THEN 2000
    ELSE IF 100 * correct_count < 60 * total_questions THEN 3000
    ELSE IF 100 * correct_count < 80 * total_questions THEN 4000
    ELSE 5000

\* Mutant: the check of the status is missing.
SubmitError_NoStatusCheck(asmts, assessment_id, employee_id) ==
    IF assessment_id \notin DOMAIN asmts THEN ErrAssessmentNotFound
    ELSE IF asmts[assessment_id].employee_id # employee_id THEN ErrNotOwner
    ELSE IF asmts[assessment_id].questions = << >> THEN ErrNoQuestions
    ELSE None

\* Mutant: the status is checked before the owner.
SubmitError_StatusFirst(asmts, assessment_id, employee_id) ==
    IF assessment_id \notin DOMAIN asmts THEN ErrAssessmentNotFound
    ELSE IF asmts[assessment_id].status = "completed" THEN ErrCompleted
    ELSE IF asmts[assessment_id].employee_id # employee_id THEN ErrNotOwner
    ELSE IF asmts[assessment_id].questions = << >> THEN ErrNoQuestions
    ELSE None

\* The checks that open submit_assessment: the error raised, None if none.
SubmitError(asmts, assessment_id, employee_id) ==
    IF assessment_id \notin DOMAIN asmts THEN ErrAssessmentNotFound
    ELSE IF asmts[assessment_id].employee_id # employee_id THEN ErrNotOwner
    ELSE IF asmts[assessment_id].status = "completed" THEN ErrCompleted
    ELSE IF asmts[assessment_id].questions = << >> THEN ErrNoQuestions
    ELSE None

\* Grading: the locals of the call after "Calculate score".
Graded(asmts, assessment_id, employee_id, answers) ==
    LET assessment == asmts[assessment_id]
        questions == assessment.questions
        correct_count == CorrectCount(questions, answers)
    IN [pc |-> "update_profile",
        assessment_id |-> assessment_id,
        employee_id |-> employee_id,
        skill_id |-> assessment.skill_id,
        answers |-> answers,
        questions |-> questions,
        correct_count |-> correct_count,
        total_questions |-> Len(questions),
        proficiency_score |-> ProficiencyScore(correct_count, Len(questions)),
        assessment_items |->
            [k \in DOMAIN questions |->
                [skill_id |-> assessment.skill_id,
                 difficulty |-> questions[k].difficulty,
                 correct |-> IsCorrect(questions[k], answers)]],
        questions_with_feedback |->
            [k \in DOMAIN questions |->
                [question_id |-> questions[k].question_id,
                 question |-> questions[k].question,
                 user_answer |-> AnswerFor(answers, questions[k].question_id),
                 correct_answer |-> questions[k].correct_answer_id,
                 is_correct |-> IsCorrect(questions[k], answers),
                 explanation |-> questions[k].explanation,
                 difficulty |-> questions[k].difficulty]],
        updated_profile |-> << >>,
        updated_proficiency |-> 0]

\* cognitive_service.update_profile inside the try: on an exception the handler
\* prints it and goes on with updated_proficiency = proficiency_score.
Estimated(profs, l) ==
    LET r == update_profile(profs, l.employee_id, l.assessment_items)
    IN IF r.err # None
       THEN [profiles |-> profs, written |-> FALSE,
             locals |-> [l EXCEPT !.pc = "finalize",
                                  !.updated_proficiency = l.proficiency_score]]
       ELSE [profiles |-> r.profiles, written |-> TRUE,
             locals |-> [l EXCEPT !.pc = "save_profile",
                                  !.updated_profile = r.profile]]

Reconciled(correct_count, total_questions, proficiency_score, updated_level) ==
    LET raw == IF 100 * correct_count >= 80 * total_questions
               THEN Max(proficiency_score, updated_level)
               ELSE IF 100 * correct_count >= 60 * total_questions
               THEN Quot(proficiency_score + updated_level, 2)
               ELSE updated_level
    IN Max(0, Min(MaxLevel, raw))

\* The reconciliation and "Save the updated profile back".
Saved(profs, l) ==
    LET skill_data == l.updated_profile[l.skill_id]
        updated_proficiency ==
            Reconciled(l.correct_count, l.total_questions, l.proficiency_score,
                       skill_data.level)
        updated_profile ==
            [l.updated_profile EXCEPT ![l.skill_id].level = updated_proficiency]
    IN [profiles |-> IF l.employee_id \in DOMAIN profs
                     THEN [profs EXCEPT ![l.employee_id] = updated_profile]
                     ELSE profs,
        locals |-> [l EXCEPT !.pc = "finalize",
                             !.updated_profile = updated_profile,
                             !.updated_proficiency = updated_proficiency]]

\* {q["question_id"]: q["correct_answer_id"] for q in questions}: the last
\* question with an id decides its entry.
CorrectAnswersDict(questions) ==
    [id \in { questions[k].question_id : k \in DOMAIN questions } |->
        LET last == CHOOSE k \in DOMAIN questions :
                        /\ questions[k].question_id = id
                        /\ \A j \in DOMAIN questions :
                               questions[j].question_id = id => j <= k
        IN questions[last].correct_answer_id]

\* "Update assessment record"
Finalized(asmts, l, now) ==
    [asmts EXCEPT ![l.assessment_id] =
        [@ EXCEPT !.answers = Some(l.answers),
                  !.correct_answers = Some(CorrectAnswersDict(l.questions)),
                  !.score = Some(l.proficiency_score),
                  !.status = "completed",
                  !.completed_at = Some(now)]]

SubmitResult(l) ==
    [op |-> "submit", err |-> None,
     assessment_id |-> l.assessment_id, employee_id |-> l.employee_id,
     skill_id |-> l.skill_id, score |-> l.proficiency_score,
     total_questions |-> l.total_questions, correct_answers |-> l.correct_count,
     questions_with_feedback |-> l.questions_with_feedback,
     updated_proficiency |-> l.updated_proficiency]

SubmitRaise(assessment_id, employee_id, msg) ==
    [op |-> "submit", err |-> msg,
     assessment_id |-> assessment_id, employee_id |-> employee_id]

\* A whole submit_assessment call, run with nothing in between.
submit_assessment(assessment_id, employee_id, answers) ==
    LET err == SubmitError(assessments, assessment_id, employee_id)
    IN /\ UNCHANGED <<llm, sub>>
       /\ IF err # None THEN
             /\ ret' = SubmitRaise(assessment_id, employee_id, err)
             /\ UNCHANGED <<profiles, assessments, clock, profileWrites, successes>>
          ELSE
             LET l1 == Graded(assessments, assessment_id, employee_id, answers)
                 e == Estimated(profiles, l1)
                 s == IF e.locals.pc = "save_profile"
                      THEN Saved(e.profiles, e.locals)
                      ELSE [profiles |-> e.profiles, locals |-> e.locals]
             IN /\ profiles' = s.profiles
                /\ profileWrites' =
                       IF e.written
                       THEN [profileWrites EXCEPT ![assessment_id] = @ + 1]
                       ELSE profileWrites
                /\ assessments' = Finalized(assessments, s.locals, clock)
                /\ clock' = clock + 1
                /\ successes' = [successes EXCEPT ![assessment_id] = @ + 1]
                /\ ret' = SubmitResult(s.locals)

\* The question as get_assessment shows it while the assessment is not completed.
Redacted(q) ==
    [question_id |-> q.question_id, question |-> q.question,
     options |-> q.options, difficulty |-> q.difficulty]

\* Mutant: the stored questions are shown whatever the status.
QuestionsForDisplay_Unredacted(assessment) == assessment.questions

QuestionsForDisplay(assessment) ==
    IF assessment.status # "completed"
    THEN [k \in DOMAIN assessment.questions |-> Redacted(assessment.questions[k])]
    ELSE assessment.questions

get_assessment(assessment_id, employee_id) ==
    /\ UNCHANGED <<llm, profiles, assessments, clock, sub, profileWrites, successes>>
    /\ IF assessment_id \notin DOMAIN assessments THEN
          ret' = [op |-> "get", err |-> ErrAssessmentNotFound,
                  assessment_id |-> assessment_id]
       ELSE IF assessments[assessment_id].employee_id # employee_id THEN
          ret' = [op |-> "get", err |-> ErrNotOwner, assessment_id |-> assessment_id]
       ELSE
          LET assessment == assessments[assessment_id]
          IN ret' = [op |-> "get", err |-> None,
                     assessment_id |-> assessment_id,
                     skill_id |-> assessment.skill_id,
                     questions |-> QuestionsForDisplay(assessment),
                     difficulty_level |-> assessment.difficulty_level,
                     status |-> assessment.status,
                     completed_at |-> assessment.completed_at]

\* The rows of an employee (of one skill if skill_id is given), newest first.
RECURSIVE HistoryRows(_, _, _, _)
HistoryRows(asmts, employee_id, skill_id, i) ==
    IF i = 0 THEN << >>
    ELSE LET a == asmts[i]
             rest == HistoryRows(asmts, employee_id, skill_id, i - 1)
         IN IF a.employee_id = employee_id /\ (skill_id = Null \/ skill_id = Some(a.skill_id))
            THEN <<[assessment_id |-> i, skill_id |-> a.skill_id, score |-> a.score,
                    status |-> a.status, completed_at |-> a.completed_at]>> \o rest
            ELSE rest

get_assessment_history(employee_id, skill_id) ==
    /\ UNCHANGED <<llm, profiles, assessments, clock, sub, profileWrites, successes>>
    /\ ret' = [op |-> "history", err |-> None,
               rows |-> HistoryRows(assessments, employee_id, skill_id, Len(assessments))]

ErrEmployeeGone == "Employee not found (404)"

\* DELETE /profiles/{employee_id}: db.delete(emp); no relationship cascades to
\* skill_assessment, whose rows keep the employee_id.
delete_employee(employee_id) ==
    /\ UNCHANGED <<llm, assessments, clock, sub, profileWrites, successes>>
    /\ IF employee_id \notin DOMAIN profiles THEN
          /\ ret' = Raise("delete_employee", ErrEmployeeGone)
          /\ UNCHANGED profiles
       ELSE
          /\ profiles' = [e \in (DOMAIN profiles) \ {employee_id} |-> profiles[e]]
          /\ ret' = [op |-> "delete_employee", err |-> None]

-----------------------------------------------------------------------------
(* The service, one call at a time *)

NoProfile == [s \in {} |-> DefaultState]
SeededProfile == [s \in {"s1"} |-> [theta |-> 0, alpha |-> DefaultAlpha, level |-> 3000]]

Idle == [pc |-> "idle"]

Init ==
    /\ llm \in BOOLEAN
    /\ profiles = [e \in EmployeeIds |-> IF e = "e1" THEN SeededProfile ELSE NoProfile]
    /\ assessments = << >>
    /\ clock = 0
    /\ ret = [op |-> "none", err |-> None]
    /\ sub = [r \in Requests |-> Idle]
    /\ profileWrites = [a \in 1..MaxAssessments |-> 0]
    /\ successes = [a \in 1..MaxAssessments |-> 0]
    /\ modules = << >>
    /\ path = Idle
    /\ calls = 0
    /\ required = << >>

AssessmentIdInputs == 1..MaxAssessments

\* skill_id, and whether skill_name and skill_description come with it
SkillInputs == { <<"s1", TRUE>>, <<"s9", FALSE>> }

Generate ==
    \E e \in EmployeeIds, s \in SkillInputs, r \in ReadinessInputs,
       reply \in OracleReplies :
        generate_assessment(e, s[1], s[2], r, reply) /\ UNCHANGED <<pvars, gvars>>

Submit ==
    \E a \in AssessmentIdInputs, e \in EmployeeIds, answers \in AnswerMaps :
        submit_assessment(a, e, answers) /\ UNCHANGED <<pvars, gvars>>

Get ==
    \E a \in AssessmentIdInputs, e \in EmployeeIds :
        get_assessment(a, e) /\ UNCHANGED <<pvars, gvars>>

History ==
    \E e \in EmployeeIds, s \in {Null, Some("s1")} :
        get_assessment_history(e, s) /\ UNCHANGED <<pvars, gvars>>

DeleteEmployee == \E e \in EmployeeIds : delete_employee(e) /\ UNCHANGED <<pvars, gvars>>

Next == Generate \/ Submit \/ Get \/ History \/ DeleteEmployee

Spec == Init /\ [][Next]_vars

-----------------------------------------------------------------------------
(* Properties of the assessment lifecycle, one call at a time *)

Owner(a) == assessments[a].employee_id

\* The step is a submit_assessment call for assessment a made by employee e.
SubmitStep(a, e) ==
    /\ ret' # ret
    /\ ret'.op = "submit"
    /\ ret'.assessment_id = a
    /\ ret'.employee_id = e

C3_Lifecycle ==
    [][/\ \A a \in DOMAIN assessments' :
            a \notin DOMAIN assessments =>
                assessments'[a].status = "pending" /\ ret'.op = "generate"
       /\ \A a \in DOMAIN assessments :
            /\ a \in DOMAIN assessments'
            /\ assessments[a].status = "completed" =>
                 /\ assessments'[a].status = "completed"
                 /\ assessments'[a].answers = assessments[a].answers
                 /\ assessments'[a].correct_answers = assessments[a].correct_answers
                 /\ assessments'[a].score = assessments[a].score
                 /\ assessments'[a].completed_at = assessments[a].completed_at
            /\ assessments'[a].status # assessments[a].status =>
                 /\ assessments[a].status = "pending"
                 /\ assessments'[a].status = "completed"
                 /\ ret'.op = "submit" /\ ret'.err = None /\ ret'.assessment_id = a
      ]_avars

\* C3 witness: a completed assessment has been read back by its owner.
C3_Witness ==
    /\ ret.op = "get"
    /\ ret.err = None
    /\ ret.status = "completed"
    /\ assessments[ret.assessment_id].answers # Null

Exposes(q) == "correct_answer_id" \in DOMAIN q \/ "explanation" \in DOMAIN q

\* C4: while an assessment is pending, no returned value (the response of
\* generate_assessment, get_assessment, get_assessment_history) carries the
\* correct_answer_id or the explanation of one of its questions.
C4_NoExposureWhilePending ==
    /\ ret.op \in {"generate", "get"} /\ ret.err = None
       /\ assessments[ret.assessment_id].status = "pending"
       => \A k \in DOMAIN ret.questions : ~Exposes(ret.questions[k])
    /\ ret.op = "history" =>
         \A k \in DOMAIN ret.rows :
            DOMAIN ret.rows[k] \cap {"questions", "correct_answers"} = {}

C5_WitnessPending ==
    /\ ret.op = "get"
    /\ ret.err = None
    /\ ret.status = "pending"
    /\ ret.questions # << >>

\* The failure the claim C6 prescribes for a submit of assessment a by e.
C6_Prescribed(a, e) ==
    CASE a \notin DOMAIN assessments -> ErrAssessmentNotFound
      [] a \in DOMAIN assessments /\ Owner(a) # e -> ErrNotOwner
      [] a \in DOMAIN assessments /\ Owner(a) = e
           /\ assessments[a].status = "completed" -> ErrCompleted
      [] a \in DOMAIN assessments /\ Owner(a) = e
           /\ assessments[a].status # "completed"
           /\ Len(assessments[a].questions) = 0 -> ErrNoQuestions
      [] OTHER -> None

C7_CompletedOnlyWithProfileUpdate ==
    \A a \in DOMAIN assessments :
        assessments[a].status = "completed" => profileWrites[a] >= 1

-----------------------------------------------------------------------------
(* submit_assessment calls of concurrent requests: each request has its own  *)
(* db session, and the calls interleave between their commits.               *)

\* Lines 206-268: load the row, the four checks, grading.
submit_begin(r, assessment_id, employee_id, answers) ==
    LET err == SubmitError(assessments, assessment_id, employee_id)
    IN /\ sub[r].pc = "idle"
       /\ UNCHANGED <<llm, profiles, assessments, clock, profileWrites, successes>>
       /\ IF err # None
          THEN /\ ret' = SubmitRaise(assessment_id, employee_id, err)
               /\ UNCHANGED sub
          ELSE /\ sub' = [sub EXCEPT ![r] =
                              Graded(assessments, assessment_id, employee_id, answers)]
               /\ UNCHANGED ret

\* Lines 271-279 and 312-316: cognitive_service.update_profile and its commit.
submit_update_profile(r) ==
    /\ sub[r].pc = "update_profile"
    /\ LET e == Estimated(profiles, sub[r])
       IN /\ profiles' = e.profiles
          /\ sub' = [sub EXCEPT ![r] = e.locals]
          /\ profileWrites' =
                 IF e.written
                 THEN [profileWrites EXCEPT ![sub[r].assessment_id] = @ + 1]
                 ELSE profileWrites
    /\ UNCHANGED <<llm, assessments, clock, ret, successes>>

\* Lines 281-310: reconciliation, the profile written back and its commit.
submit_save_profile(r) ==
    /\ sub[r].pc = "save_profile"
    /\ LET s == Saved(profiles, sub[r])
       IN /\ profiles' = s.profiles
          /\ sub' = [sub EXCEPT ![r] = s.locals]
    /\ UNCHANGED <<llm, assessments, clock, ret, profileWrites, successes>>

\* Lines 318-340: the assessment row written, its commit, the result.
submit_finalize(r) ==
    /\ sub[r].pc = "finalize"
    /\ assessments' = Finalized(assessments, sub[r], clock)
    /\ clock' = clock + 1
    /\ successes' = [successes EXCEPT ![sub[r].assessment_id] = @ + 1]
    /\ ret' = SubmitResult(sub[r])
    /\ sub' = [sub EXCEPT ![r] = Idle]
    /\ UNCHANGED <<llm, profiles, profileWrites>>

SubmitBegin ==
    \E r \in Requests, a \in AssessmentIdInputs, e \in EmployeeIds, answers \in AnswerMaps :
        submit_begin(r, a, e, answers) /\ UNCHANGED <<pvars, gvars>>

SubmitUpdateProfile == \E r \in Requests : submit_update_profile(r) /\ UNCHANGED <<pvars, gvars>>
SubmitSaveProfile == \E r \in Requests : submit_save_profile(r) /\ UNCHANGED <<pvars, gvars>>
SubmitFinalize == \E r \in Requests : submit_finalize(r) /\ UNCHANGED <<pvars, gvars>>

NextConcurrent ==
    \/ Generate
    \/ SubmitBegin
    \/ SubmitUpdateProfile
    \/ SubmitSaveProfile
    \/ SubmitFinalize

SpecConcurrent == Init /\ [][NextConcurrent]_vars

\* C1: of the concurrent submit_assessment calls for one pending assessment
\* exactly one succeeds and only one updates the employee's profile: once every
\* call has returned, at most one has succeeded and at most one has committed a
\* profile update for that assessment.
C1_OneSubmitWins ==
    (\A r \in Requests : sub[r].pc = "idle") =>
        \A a \in DOMAIN assessments :
            successes[a] <= 1 /\ profileWrites[a] <= 1

-----------------------------------------------------------------------------
(* RecommenderService: learning_module rows and module durations.            *)
(* Gaps are in tenths of a level, durations in ticks of 1/50 minute.         *)

MaxCalls == 1               \* generate_learning_path calls in one behaviour

TicksPerMinute == 50
TicksPerMilliHour == 3      \* max_hours * 60 minutes, max_hours in thousandths
MinViableMinutes == 15      \* if remaining_minutes >= 15
IterationFactor == 10       \* max_iterations = len(skills_sorted) * 10
GapStep == 5                \* gap_val -= 0.5
NoDifficulty == 999         \* m.difficulty_level or 999
TopLevel == 5               \* min(5, max(1, ...))

LearningModule(skills, duration_minutes, difficulty_level, module_metadata, is_generated) ==
    [skills |-> skills, duration_minutes |-> duration_minutes,
     difficulty_level |-> difficulty_level, module_metadata |-> module_metadata,
     is_generated |-> is_generated]

\* module_metadata: content is len(content), exercises and assessment are the
\* lengths of the lists.
Metadata(skill_id, content, exercises, assessment) ==
    [skill_id |-> skill_id, content |-> content, exercises |-> exercises,
     assessment |-> assessment]

\* reading_time + exercise_time + assessment_time + comprehension_buffer, in
\* ticks (content lengths are multiples of 150 characters, so it is exact).
ContentDuration(content, exercises, assessment, target_level) ==
    LET reading_time == Quot(content * TicksPerMinute, 5 * 150)
        exercise_time == exercises * (250 + target_level * 125)
        assessment_time == assessment * (150 + target_level * 40)
        comprehension_buffer == Quot(reading_time * (2 + target_level), 10)
    IN reading_time + exercise_time + assessment_time + comprehension_buffer

min_duration(target_level) == (15 + target_level * 10) * TicksPerMinute
max_duration(target_level) == (45 + target_level * 30) * TicksPerMinute

\* The duration _generate_module_for_skill stores, in whole minutes:
\* max(min_duration, min(max_duration, int(duration))).
GeneratedMinutes(shape, target_level) ==
    LET duration == ContentDuration(shape.content, shape.exercises,
                                    shape.assessment, target_level)
    IN Quot(Max(min_duration(target_level),
                Min(max_duration(target_level),
                    Quot(duration, TicksPerMinute) * TicksPerMinute)),
            TicksPerMinute)

\* _calculate_module_duration, in ticks.
_calculate_module_duration(module, target_level, gap_val) ==
    IF module.duration_minutes # Null /\ module.duration_minutes[1] # 0
    THEN module.duration_minutes[1] * TicksPerMinute
    ELSE IF module.module_metadata # Null /\ module.module_metadata[1].content # 0
    THEN LET md == module.module_metadata[1]
         IN Max(min_duration(target_level),
                Min(max_duration(target_level),
                    ContentDuration(md.content, md.exercises, md.assessment,
                                    target_level)))
    ELSE LET base_duration == 20 + target_level * 10
             \* base_duration * (1.0 + gap_val * 0.2) minutes
             estimated == base_duration * (TicksPerMinute + gap_val)
         IN Max(min_duration(target_level),
                Min(max_duration(target_level), estimated))

\* round(total_minutes / 60.0, 2), in hundredths of an hour; a tie goes to the
\* even neighbour.
total_hours(total_minutes) ==
    LET per == (60 * TicksPerMinute) \div 100
        q == total_minutes \div per
        r == total_minutes % per
    IN IF 2 * r > per \/ (2 * r = per /\ q % 2 = 1) THEN q + 1 ELSE q

\* sorted(pairs, key=lambda kv: kv[1], reverse=True): stable, highest gap
\* first; an entry's place is one more than the number of entries that go
\* before it.
SortedByGap(pairs) ==
    LET Before(j, i) == \/ pairs[j][2] > pairs[i][2]
                        \/ pairs[j][2] = pairs[i][2] /\ j < i
        Place(i) == Cardinality({j \in 1..Len(pairs) : Before(j, i)}) + 1
    IN [r \in 1..Len(pairs) |-> pairs[CHOOSE i \in 1..Len(pairs) : Place(i) = r]]

\* [(sid, gap) for sid, gap in skills_sorted if gap > 0]
WithGap(pairs) == SelectSeq(pairs, LAMBDA kv : kv[2] > 0)

DifficultyKey(module) ==
    IF module.difficulty_level = Null \/ module.difficulty_level[1] = 0
    THEN NoDifficulty
    ELSE module.difficulty_level[1]

\* The module ids in table order (db.query(LearningModule).all()).
AllModuleIds(mods) == [id \in 1..Len(mods) |-> id]

\* Lines 109-116: the existing modules tagged with the skill and not yet
\* added, sorted by difficulty_level or 999; the sort is stable, so modules
\* of equal difficulty stay in table order.
TaggedModules(mods, skill_id, added_module_ids) ==
    LET tagged == {id \in 1..Len(mods) : /\ id \notin added_module_ids
                                         /\ mods[id].skills # {}
                                         /\ skill_id \in mods[id].skills}
        Before(j, i) ==
            \/ DifficultyKey(mods[j]) < DifficultyKey(mods[i])
            \/ DifficultyKey(mods[j]) = DifficultyKey(mods[i]) /\ j < i
        Place(i) == Cardinality({j \in tagged : Before(j, i)}) + 1
    IN [r \in 1..Cardinality(tagged) |-> CHOOSE i \in tagged : Place(i) = r]

\* Lines 141-147: modules whose module_metadata names the skill.
FallbackModules(mods, skill_id, added_module_ids) ==
    SelectSeq(AllModuleIds(mods),
              LAMBDA id : /\ mods[id].module_metadata # Null
                         /\ mods[id].module_metadata[1].skill_id = skill_id
                         /\ id \notin added_module_ids)

-----------------------------------------------------------------------------
(* RecommenderService.generate_learning_path *)

ErrGoalNotFound == "Goal not found"

\* What llm.generate_learning_content returns: it raises, or it gives content
\* of some shape (len(content), len(exercises), len(assessment)).
ContentFailure == [ok |-> FALSE, content |-> 0, exercises |-> 0, assessment |-> 0]
ContentReplies ==
    { ContentFailure,
      [ok |-> TRUE, content |-> 1500, exercises |-> 3, assessment |-> 5] }

\* Lines 313-329: the row _generate_module_for_skill stores.
GeneratedModule(skill_id, shape, target_level) ==
    LearningModule({skill_id}, Some(GeneratedMinutes(shape, target_level)),
                   Some(target_level),
                   Some(Metadata(skill_id, shape.content, shape.exercises,
                                 shape.assessment)),
                   TRUE)

\* Lines 59-83: the locals before the loop.
PathLocals(employee_id, max_hours, profile, scalar_gaps) ==
    [pc |-> "loop", employee_id |-> employee_id, max_hours |-> max_hours,
     profile |-> profile, scalar_gaps |-> scalar_gaps,
     skills_sorted |-> SortedByGap(scalar_gaps),
     total_minutes |-> 0, path_items |-> << >>, added_module_ids |-> {},
     max_hours_minutes |-> max_hours * TicksPerMilliHour,
     iterations_without_progress |-> 0,
     max_iterations |-> Len(scalar_gaps) * IterationFactor,
     skill_module_counts |->
         [i \in 1..Len(scalar_gaps) |->
             [skill_id |-> scalar_gaps[i][1], current |-> 0,
              total |-> Max(1, Quot(scalar_gaps[i][2], GapStep))]],
     iteration |-> 0,
     target_level |-> 0, gap_val |-> 0, module_added |-> FALSE,
     modules |-> << >>, m |-> 0]

\* Mutant: the loop is not limited to max_iterations rounds.
LoopCondition_NoCap(l) ==
    l.total_minutes < l.max_hours_minutes

\* Line 84: the condition of the while loop.
LoopCondition(l) ==
    l.total_minutes < l.max_hours_minutes /\ l.iteration < l.max_iterations

\* Lines 103-106.
TargetLevel(profile, skill_id, gap_val) ==
    LET theta == IF skill_id \in DOMAIN profile THEN profile[skill_id].theta ELSE 0
        current_level == IF skill_id \in DOMAIN profile
                         THEN profile[skill_id].level ELSE theta
    IN Min(TopLevel, Max(1, Quot(current_level + gap_val * 100, 1000)))

\* Mutant: a module is allocated in full whatever budget remains.
FittedDuration_Untruncated(module_duration, remaining_minutes) ==
    Some(module_duration)

\* Mutant: a module that does not fit is cut to the remainder however little
\* remains.
FittedDuration_NoMinimum(module_duration, remaining_minutes) ==
    IF module_duration > remaining_minutes
    THEN Some(remaining_minutes)
    ELSE Some(module_duration)

\* Lines 161-168: the duration to allocate, or Null when the module does not
\* fit and the remainder is below the minimum viable duration.
FittedDuration(module_duration, remaining_minutes) ==
    IF module_duration > remaining_minutes
    THEN IF remaining_minutes >= MinViableMinutes * TicksPerMinute
         THEN Some(remaining_minutes)
         ELSE Null
    ELSE Some(module_duration)

\* Mutant: the module id is not recorded in added_module_ids.
Allocated_Untracked(l, module_id, module, module_duration) ==
    LET skill_id == l.skills_sorted[1][1]
        gap_val == l.gap_val - GapStep
    IN [l EXCEPT
          !.path_items = Append(@,
              [skill_id |-> skill_id, module_id |-> module_id,
               order |-> Len(l.path_items) + 1,
               expected_gain |-> Min(l.gap_val, GapStep),
               duration_minutes |-> Quot(module_duration, TicksPerMinute),
               is_generated |-> module.is_generated]),
          !.total_minutes = @ + module_duration,
          !.gap_val = gap_val,
          !.module_added = TRUE,
          !.skills_sorted = [@ EXCEPT ![1] = <<skill_id, gap_val>>]]

\* Mutant: an allocation closes as much of the gap as the module's hours.
Allocated_GainByDuration(l, module_id, module, module_duration) ==
    LET skill_id == l.skills_sorted[1][1]
        gap_val == l.gap_val - Quot(module_duration * 10, 60 * TicksPerMinute)
    IN [l EXCEPT
          !.path_items = Append(@,
              [skill_id |-> skill_id, module_id |-> module_id,
               order |-> Len(l.path_items) + 1,
               expected_gain |-> Min(l.gap_val, GapStep),
               duration_minutes |-> Quot(module_duration, TicksPerMinute),
               is_generated |-> module.is_generated]),
          !.added_module_ids = @ \union {module_id},
          !.total_minutes = @ + module_duration,
          !.gap_val = gap_val,
          !.module_added = TRUE,
          !.skills_sorted = [@ EXCEPT ![1] = <<skill_id, gap_val>>]]

\* Lines 170-188: one item appended and the bookkeeping that follows it.
Allocated(l, module_id, module, module_duration) ==
    LET skill_id == l.skills_sorted[1][1]
        gap_val == l.gap_val - GapStep
    IN [l EXCEPT
          !.path_items = Append(@,
              [skill_id |-> skill_id, module_id |-> module_id,
               order |-> Len(l.path_items) + 1,
               expected_gain |-> Min(l.gap_val, GapStep),
               duration_minutes |-> Quot(module_duration, TicksPerMinute),
               is_generated |-> module.is_generated]),
          !.added_module_ids = @ \union {module_id},
          !.total_minutes = @ + module_duration,
          !.gap_val = gap_val,
          !.module_added = TRUE,
          !.skills_sorted = [@ EXCEPT ![1] = <<skill_id, gap_val>>]]

\* Lines 200-206: after the for loop.
Progress(l) ==
    IF ~l.module_added
    THEN LET rest == Tail(l.skills_sorted)
             stalled == l.iterations_without_progress + 1
         IN [l EXCEPT !.skills_sorted = rest,
                      !.iterations_without_progress = stalled,
                      !.pc = IF stalled > Len(rest) THEN "return" ELSE "loop"]
    ELSE [l EXCEPT !.iterations_without_progress = 0, !.pc = "loop"]

\* Lines 85-106: the round is counted, the skills with a gap left are sorted
\* again, and the first one is selected.
Selected(l) ==
    LET sorted == SortedByGap(WithGap(l.skills_sorted))
    IN [l EXCEPT
          !.iteration = @ + 1,
          !.skills_sorted = sorted,
          !.gap_val = IF sorted = << >> THEN 0 ELSE sorted[1][2],
          !.target_level = IF sorted = << >> THEN 0
                           ELSE TargetLevel(l.profile, sorted[1][1], sorted[1][2]),
          !.module_added = FALSE]

\* Lines 108-148: the modules to try for the selected skill, as ids: the
\* tagged ones, else one generated on demand (reply is what the content oracle
\* answers), else the module_metadata fallback.  Gives the locals, at the
\* head of the for loop, and the module table.
Found(l, mods, has_llm, reply) ==
    LET skill_id == l.skills_sorted[1][1]
        tagged == TaggedModules(mods, skill_id, l.added_module_ids)
        asks == tagged = << >> /\ has_llm /\ skill_id \in SkillTable
        counts == IF asks
                  THEN [i \in DOMAIN l.skill_module_counts |->
                          IF l.skill_module_counts[i].skill_id = skill_id
                          THEN [l.skill_module_counts[i] EXCEPT !.current = @ + 1]
                          ELSE l.skill_module_counts[i]]
                  ELSE l.skill_module_counts
        generated == asks /\ reply.ok
        mods2 == IF generated
                 THEN Append(mods, GeneratedModule(skill_id, reply, l.target_level))
                 ELSE mods
        found == IF generated THEN <<Len(mods) + 1>> ELSE tagged
    IN [locals |-> [l EXCEPT
                      !.skill_module_counts = counts,
                      !.modules = IF found = << >>
                                  THEN FallbackModules(mods2, skill_id,
                                                       l.added_module_ids)
                                  ELSE found,
                      !.m = 1,
                      !.pc = "for"],
        modules |-> mods2]

\* Lines 225-238 (and 46-57): the value returned, with the call's arguments.
PathResult(employee_id, max_hours, items, total_minutes) ==
    [op |-> "path", err |-> None, employee_id |-> employee_id,
     max_hours |-> max_hours, items |-> items,
     total_hours |-> total_hours(total_minutes)]

PathRaise(employee_id, max_hours, msg) ==
    [op |-> "path", err |-> msg, employee_id |-> employee_id,
     max_hours |-> max_hours]

\* Lines 28-83: the lookups, the gap engine's result, the early return.
path_begin(employee_id, goal_found, max_hours, scalar_gaps) ==
    /\ path.pc = "idle"
    /\ calls < MaxCalls
    /\ calls' = calls + 1
    /\ UNCHANGED <<llm, profiles, assessments, clock, sub, profileWrites, successes, modules>>
    /\ IF employee_id \notin DOMAIN profiles THEN
          /\ ret' = PathRaise(employee_id, max_hours, ErrEmployeeNotFound)
          /\ UNCHANGED path
       ELSE IF ~goal_found THEN
          /\ ret' = PathRaise(employee_id, max_hours, ErrGoalNotFound)
          /\ UNCHANGED path
       ELSE IF scalar_gaps = << >> THEN
          /\ ret' = PathResult(employee_id, max_hours, << >>, 0)
          /\ UNCHANGED path
       ELSE
          /\ path' = PathLocals(employee_id, max_hours, profiles[employee_id],
                                scalar_gaps)
          /\ UNCHANGED ret

\* Lines 84-151: the head of one round of the while loop, up to the for loop.
path_round(reply) ==
    /\ path.pc = "loop"
    /\ LoopCondition(path)
    /\ UNCHANGED <<avars, calls>>
    /\ \E l \in {Selected(path)} :
          IF l.skills_sorted = << >> THEN
             /\ path' = [l EXCEPT !.pc = "return"]
             /\ UNCHANGED modules
          ELSE IF l.gap_val <= 0 THEN
             /\ path' = [l EXCEPT !.skills_sorted = Tail(@)]
             /\ UNCHANGED modules
          ELSE
             \E f \in {Found(l, modules, llm, reply)} :
                /\ path' = f.locals
                /\ modules' = f.modules

\* Lines 152-206: one pass of "for m in modules", and what follows the loop
\* when it is left.
path_allocate ==
    /\ path.pc = "for"
    /\ UNCHANGED <<avars, modules, calls>>
    /\ IF path.m > Len(path.modules) THEN
          path' = Progress(path)
       ELSE IF path.modules[path.m] \in path.added_module_ids THEN
          path' = [path EXCEPT !.m = @ + 1]
       ELSE
          \E fitted \in {FittedDuration(
                             _calculate_module_duration(modules[path.modules[path.m]],
                                                        path.target_level, path.gap_val),
                             path.max_hours_minutes - path.total_minutes)} :
             IF fitted = Null THEN
                path' = Progress(path)
             ELSE
                \E a \in {Allocated(path, path.modules[path.m],
                                     modules[path.modules[path.m]], fitted[1])} :
                   IF a.total_minutes >= a.max_hours_minutes THEN
                      path' = Progress(a)
                   ELSE IF a.gap_val <= 0 THEN
                      path' = Progress([a EXCEPT !.skills_sorted = Tail(@)])
                   ELSE
                      path' = [a EXCEPT !.m = @ + 1]

\* Lines 208-238: the loop is over, the plan is returned.
path_return ==
    /\ \/ path.pc = "return"
       \/ path.pc = "loop" /\ ~LoopCondition(path)
    /\ ret' = PathResult(path.employee_id, path.max_hours, path.path_items,
                         path.total_minutes)
    /\ path' = Idle
    /\ UNCHANGED <<llm, profiles, assessments, clock, sub, profileWrites, successes,
                   modules, calls>>

-----------------------------------------------------------------------------
(* The scheduler, one call from a given catalogue *)

\* learning_module tables a call may find.
TaggedCatalogue ==
    << LearningModule({"s1"}, Some(30), Some(2), Null, FALSE),
       LearningModule({"s1", "s2"}, Some(60), Some(1), Null, FALSE) >>
FallbackCatalogue ==
    << LearningModule({}, Null, Null, Some(Metadata("s2", 1500, 3, 5)), TRUE),
       LearningModule({"s1"}, Null, Null, Null, FALSE) >>
Catalogues == { << >>, TaggedCatalogue, FallbackCatalogue }

\* scalar_gaps.items() as the gap engine gives them: (skill_id, gap in tenths)
GapInputs ==
    { << >>,
      << <<"s1", 10>> >>,
      << <<"s1", 0>>, <<"s2", 12>> >>,
      << <<"s2", 55>> >>,
      << <<"s1", 5>>, <<"s2", 5>>, <<"s9", 20>> >>,
      << <<"s2", 8>>, <<"s1", 10>> >>,
      << <<"s9", 20>>, <<"s8", 15>>, <<"s2", 5>> >> }

\* max_hours in thousandths of an hour: any float is accepted, 40.0 by default
MaxHoursInputs == { 0 - 1000, 0, 257, 1000, 1200, 1400, 40000 }

InitPath ==
    /\ llm \in BOOLEAN
    /\ profiles = [e \in {"e1"} |-> SeededProfile]
    /\ assessments = << >>
    /\ clock = 0
    /\ ret = [op |-> "none", err |-> None]
    /\ sub = [r \in Requests |-> Idle]
    /\ profileWrites = [a \in 1..MaxAssessments |-> 0]
    /\ successes = [a \in 1..MaxAssessments |-> 0]
    /\ modules \in Catalogues
    /\ path = Idle
    /\ calls = 0
    /\ required = << >>

PathBegin ==
    \E e \in EmployeeIds, goal_found \in BOOLEAN, h \in MaxHoursInputs,
       g \in GapInputs :
        path_begin(e, goal_found, h, g) /\ UNCHANGED gvars

PathRound == (\E reply \in ContentReplies : path_round(reply)) /\ UNCHANGED gvars

PathAllocate == path_allocate /\ UNCHANGED gvars

PathReturn == path_return /\ UNCHANGED gvars

NextPath == PathBegin \/ PathRound \/ PathAllocate \/ PathReturn

SpecPath == InitPath /\ [][NextPath]_vars

\* The call is synchronous: once begun, it runs its rounds and returns.
SpecPathFair ==
    SpecPath /\ WF_vars(PathRound) /\ WF_vars(PathAllocate) /\ WF_vars(PathReturn)

-----------------------------------------------------------------------------
(* Properties of generate_learning_path *)

Returned == ret.op = "path" /\ ret.err = None

RECURSIVE SumDurations(_, _)
SumDurations(items, n) ==
    IF n = 0 THEN 0 ELSE SumDurations(items, n - 1) + items[n].duration_minutes

\* C8 (as stated): in every returned plan the sum of duration_minutes over the
\* items is at most max_hours * 60 minutes, the reported total_hours is at most
\* max_hours, and a budget of 0 gives no items and total_hours = 0.0.
C8_WithinBudget ==
    Returned =>
        /\ SumDurations(ret.items, Len(ret.items)) * TicksPerMinute
               <= ret.max_hours * TicksPerMilliHour
        /\ ret.total_hours * 10 <= ret.max_hours
        /\ ret.max_hours = 0 => ret.items = << >> /\ ret.total_hours = 0

\* C8 (amended): for a budget max_hours >= 0 the sum of duration_minutes over
\* the items of a returned plan is at most max_hours * 60 minutes and the
\* reported total_hours, which is rounded to two decimals, exceeds max_hours
\* by at most 0.005; a budget of 0 or less gives no items and total_hours = 0.0.
C8_WithinBudgetRounded ==
    Returned =>
        /\ ret.max_hours >= 0 =>
               /\ SumDurations(ret.items, Len(ret.items)) * TicksPerMinute
                      <= ret.max_hours * TicksPerMilliHour
               /\ ret.total_hours * 10 <= ret.max_hours + 5
        /\ ret.max_hours <= 0 => ret.items = << >> /\ ret.total_hours = 0

\* A returned plan whose last item was truncated to the remaining budget and
\* whose rounded total is above max_hours.
C8_Witness ==
    /\ Returned
    /\ ret.items # << >>
    /\ ret.max_hours > 0
    /\ ret.total_hours * 10 > ret.max_hours
    /\ SumDurations(ret.items, Len(ret.items)) * TicksPerMinute
           <= ret.max_hours * TicksPerMilliHour

\* C9: no two items of a returned plan have the same module_id, and neither
\* do two items of the plan being built.
C9_NoRepeatedModule ==
    /\ Returned =>
           \A i, j \in 1..Len(ret.items) :
               i # j => ret.items[i].module_id # ret.items[j].module_id
    /\ path.pc # "idle" =>
           \A i, j \in 1..Len(path.path_items) :
               i # j => path.path_items[i].module_id # path.path_items[j].module_id

\* A returned plan holding an existing module tagged with two skills that both
\* had a gap, next to a module synthesized during the call.
C9_Witness ==
    /\ Returned
    /\ Len(ret.items) >= 2
    /\ \E i, j \in 1..Len(ret.items) :
           /\ ~ret.items[i].is_generated
           /\ modules[ret.items[i].module_id].skills = {"s1", "s2"}
           /\ ret.items[j].is_generated
           /\ ret.items[j].skill_id = "s2"

\* C10: every generate_learning_path call that has begun returns, and its
\* selection loop never runs more than 10 * (number of skills with a gap
\* entry) rounds.
C10_Terminates ==
    /\ [](path.pc # "idle" =>
              path.iteration <= IterationFactor * Len(path.scalar_gaps))
    /\ (path.pc # "idle") ~> (path.pc = "idle" /\ ret.op = "path")

\* The loop stopped by the round limit alone: budget left, a gap still open.
C10_Witness ==
    /\ path.pc = "loop"
    /\ path.iteration = IterationFactor * Len(path.scalar_gaps)
    /\ path.total_minutes < path.max_hours_minutes
    /\ \E i \in 1..Len(path.skills_sorted) : path.skills_sorted[i][2] > 0

\* Position of a skill in scalar_gaps.items(), the order of discovery.
Discovery(l, skill_id) ==
    CHOOSE k \in DOMAIN l.scalar_gaps : l.scalar_gaps[k][1] = skill_id

\* An item is appended to the plan in this step (lines 170-181).
Allocates == path.pc = "for" /\ Len(path'.path_items) = Len(path.path_items) + 1

\* C20: every item is allocated to a skill whose remaining gap at the moment
\* of the allocation is the largest among the skills that still have a
\* positive remaining gap, the choice being made anew for each single
\* allocation; among skills of equal remaining gap the one discovered earlier
\* is taken.
C20_LargestRemainingGap ==
    [][Allocates =>
         \A k \in DOMAIN path.skills_sorted :
            LET chosen == path.skills_sorted[1]
                other == path.skills_sorted[k]
            IN other[2] > 0 =>
                  \/ other[2] < chosen[2]
                  \/ /\ other[2] = chosen[2]
                     /\ Discovery(path, chosen[1]) <= Discovery(path, other[1])]_vars

\* The part of C20 the code keeps: at the first allocation of a round the
\* selected skill has the largest remaining gap.
C20_LargestAtRoundStart ==
    [][(Allocates /\ ~path.module_added) =>
         \A k \in DOMAIN path.skills_sorted :
            path.skills_sorted[k][2] <= path.skills_sorted[1][2]]_vars

-----------------------------------------------------------------------------
(* The estimator's two functions on their own: level(theta) and _update_theta *)

\* theta in thousandths, inside and outside [-3, 3]
ThetaInputs ==
    { 0 - 40000, 0 - 9000, 0 - 3001, 0 - 3000, 0 - 2999, 0 - 1500, 0 - 1, 0,
      1, 1500, 2999, 3000, 3001, 9000, 40000 }

\* theta0 of a stored entry on the scale the profile uses
Theta0Inputs == { 0 - 3000, 0 - 1000, 0, 2000, 3000 }

\* (alpha, beta, correct) with beta on the 0-5 difficulty scale
ResponseInputs ==
    { <<a, b, c>> : a \in {500, 1000, 2000}, b \in {0, 2500, 5000}, c \in BOOLEAN }

\* one or two responses on the scale, and responses whose difficulty is far off
\* it (difficulty is whatever float the question or the caller carries)
ResponseSets ==
    { <<r>> : r \in ResponseInputs }
    \cup { <<r, q>> : r \in ResponseInputs, q \in ResponseInputs }
    \cup { << <<1000, 0 - 40000, TRUE>> >>,
           << <<1000, 0 - 40000, TRUE>>, <<2000, 0 - 40000, TRUE>> >>,
           << <<1000, 800000, FALSE>> >>,
           << <<1000, 2500, TRUE>>, <<1000, 800000, TRUE>> >> }

InitTheta ==
    /\ llm = FALSE
    /\ profiles = << >>
    /\ assessments = << >>
    /\ clock = 0
    /\ sub = [r \in Requests |-> Idle]
    /\ profileWrites = << >>
    /\ successes = << >>
    /\ modules = << >>
    /\ path = Idle
    /\ calls = 0
    /\ required = << >>
    /\ \/ \E a \in ThetaInputs, b \in ThetaInputs :
             ret = [op |-> "input", err |-> None, fn |-> "level", a |-> a, b |-> b]
       \/ \E theta0 \in Theta0Inputs, responses \in ResponseSets :
             ret = [op |-> "input", err |-> None, fn |-> "_update_theta",
                    theta0 |-> theta0, responses |-> responses]

\* Line 62 applied to two thetas.
Level ==
    /\ ret.op = "input" /\ ret.fn = "level"
    /\ ret' = [op |-> "level", err |-> None, a |-> ret.a, b |-> ret.b,
               level_a |-> LevelOfTheta(ret.a), level_b |-> LevelOfTheta(ret.b)]
    /\ UNCHANGED <<llm, profiles, assessments, clock, sub, profileWrites, successes, pvars, gvars>>

\* Lines 26-34 applied to (theta0, responses); theta is in millionths.
UpdateTheta ==
    /\ ret.op = "input" /\ ret.fn = "_update_theta"
    /\ ret' = IF Overflows(ret.theta0, ret.responses)
              THEN [op |-> "_update_theta", err |-> ErrOverflow,
                    theta0 |-> ret.theta0, responses |-> ret.responses, theta |-> 0]
              ELSE [op |-> "_update_theta", err |-> None,
                    theta0 |-> ret.theta0, responses |-> ret.responses,
                    theta |-> _update_theta_micro(ret.theta0, ret.responses)]
    /\ UNCHANGED <<llm, profiles, assessments, clock, sub, profileWrites, successes, pvars, gvars>>

NextTheta == Level \/ UpdateTheta

SpecTheta == InitTheta /\ [][NextTheta]_vars

\* C16: level(theta) = clamp((theta+3)/6*5, 0, 5) is monotone non-decreasing
\* in theta, lies in [0,5] for every theta, also outside [-3,3], and
\* level(-3) = 0, level(3) = 5.
C16_LevelMonotoneBounded ==
    ret.op = "level" =>
       /\ ret.a <= ret.b => ret.level_a <= ret.level_b
       /\ 0 <= ret.level_a /\ ret.level_a <= MaxLevel
       /\ ret.a = 0 - ThetaShift => ret.level_a = 0
       /\ ret.a = ThetaShift => ret.level_a = MaxLevel

\* Two thetas beyond the ends of [-3,3] and one inside, all three levels
\* computed.
C16_Witness ==
    /\ ret.op = "level"
    /\ ret.a < 0 - ThetaShift /\ ret.level_a = 0
    /\ ret.b > ThetaShift /\ ret.level_b = MaxLevel

C16_WitnessInside ==
    /\ ret.op = "level"
    /\ ret.a = 0 /\ ret.level_a = 2500
    /\ ret.b = 1500 /\ ret.level_b = 3750

AllCorrect(responses) == \A i \in DOMAIN responses : responses[i][3]
NoneCorrect(responses) == \A i \in DOMAIN responses : ~responses[i][3]

\* C17 as stated: for every theta0 and every non-empty response set,
\* _update_theta returns a theta strictly below theta0 when no response is
\* correct and strictly above theta0 when every response is correct.
C17_StrictlyMoves ==
    ret.op = "_update_theta" =>
       /\ NoneCorrect(ret.responses) =>
             ret.err = None /\ ret.theta < ret.theta0 * MicroPerMilli
       /\ AllCorrect(ret.responses) =>
             ret.err = None /\ ret.theta > ret.theta0 * MicroPerMilli

\* theta0 and every response are on their scales: theta0 in [-3,3],
\* difficulty in [0,5], discrimination in (0,2].
OnScale(theta0, responses) ==
    /\ 0 - ThetaShift <= theta0 /\ theta0 <= ThetaShift
    /\ \A i \in DOMAIN responses :
          /\ 0 < responses[i][1] /\ responses[i][1] <= 2 * DefaultAlpha
          /\ 0 <= responses[i][2] /\ responses[i][2] <= MaxLevel

\* C17 on the scales: with theta0 in [-3,3], every difficulty in [0,5] and
\* every alpha in (0,2], _update_theta returns, and returns a theta strictly below theta0 when no
\* response is correct and strictly above theta0 when every response is
\* correct.
C17_StrictlyMovesOnScale ==
    (ret.op = "_update_theta" /\ OnScale(ret.theta0, ret.responses)) =>
       /\ ret.err = None
       /\ NoneCorrect(ret.responses) => ret.theta < ret.theta0 * MicroPerMilli
       /\ AllCorrect(ret.responses) => ret.theta > ret.theta0 * MicroPerMilli

\* Two responses of the hardest difficulty answered correctly from theta0 = 3.
C17_Witness ==
    /\ ret.op = "_update_theta" /\ ret.err = None
    /\ ret.theta0 = ThetaShift
    /\ Len(ret.responses) = 2 /\ AllCorrect(ret.responses)
    /\ \A i \in DOMAIN ret.responses : ret.responses[i][2] = MaxLevel
    /\ ret.theta > ret.theta0 * MicroPerMilli

\* A wrong answer to the easiest question from theta0 = -3.
C17_WitnessDown ==
    /\ ret.op = "_update_theta" /\ ret.err = None
    /\ ret.theta0 = 0 - ThetaShift
    /\ NoneCorrect(ret.responses)
    /\ \A i \in DOMAIN ret.responses : ret.responses[i][2] = 0
    /\ ret.theta < ret.theta0 * MicroPerMilli

-----------------------------------------------------------------------------
(* Grading: submit_assessment on assessments of one to five questions *)

Q4 == MCQ("q4", "t4", "A", 1500)
Q5 == MCQ("q5", "t5", "b", 4500)
Q6 == MCQ("q6", "t6", "a", 2500)
\* a question the oracle gave no correct_answer_id: q.get("correct_answer_id", "")
QNoKey == MCQ("q7", "t7", "", 2500)

\* a question the oracle gave a difficulty far off the 1-5 scale
QOffScale == MCQ("q8", "t8", "a", 800000)

\* a question the oracle gave the question_id of Q1 with another text
Q1Twin == MCQ("q1", "t9", "b", 2500)

\* What generate_assessment stored: the oracle's lists, as they came.
GradeQuestionLists ==
    { <<Q1>>, <<Q1, Q2>>, <<Q1, Q2, Q4>>, <<Q1, Q2, Q4, Q5>>,
      <<Q1, Q2, Q4, Q5, Q6>>, <<Q1, QNoKey>>, <<Q1, QOffScale>>,
      <<Q1, Q1Twin>>, <<Q1, Q1Again, Q2>> }

QuestionIds(questions) == { questions[k].question_id : k \in DOMAIN questions }

\* answers for any part of the questions, each an option id in either case
GradeAnswers(questions) ==
    UNION { [ids -> {"A", "b"}] : ids \in SUBSET QuestionIds(questions) }

HighProfile == [s \in {"s1"} |-> [theta |-> 3000, alpha |-> DefaultAlpha, level |-> 5000]]
LowProfile == [s \in {"s1"} |-> [theta |-> 0 - 3000, alpha |-> DefaultAlpha, level |-> 0]]

InitGrade ==
    /\ llm = TRUE
    /\ \E profile \in {NoProfile, SeededProfile, HighProfile, LowProfile} :
          profiles = [e \in {"e1"} |-> profile]
    /\ \E qs \in GradeQuestionLists :
          assessments = << NewAssessment("e1", "s1", Dedupe(qs, 1, {}), 500) >>
    /\ clock = 0
    /\ ret = [op |-> "none", err |-> None]
    /\ sub = [r \in Requests |-> Idle]
    /\ profileWrites = [a \in 1..MaxAssessments |-> 0]
    /\ successes = [a \in 1..MaxAssessments |-> 0]
    /\ modules = << >>
    /\ path = Idle
    /\ calls = 0
    /\ required = << >>

SubmitGraded ==
    \E answers \in GradeAnswers(assessments[1].questions) :
        submit_assessment(1, "e1", answers) /\ UNCHANGED <<pvars, gvars>>

NextGrade == SubmitGraded

SpecGrade == InitGrade /\ [][NextGrade]_vars

\* The question counts as correct the way C14 says: an answer was submitted
\* for it and equals its correct_answer_id, case ignored.
AnsweredCorrectly(q, answers) ==
    /\ q.question_id \in DOMAIN answers
    /\ lower(answers[q.question_id]) = lower(q.correct_answer_id)

NumberCorrect(assessment) ==
    Cardinality({ k \in DOMAIN assessment.questions :
                     AnsweredCorrectly(assessment.questions[k], assessment.answers[1]) })

\* 1 if percentage < 20, 2 if < 40, 3 if < 60, 4 if < 80, else 5, for
\* percentage = 100 * correct / total
Band(correct, total) ==
    IF 100 * correct < 20 * total THEN 1
    ELSE IF 100 * correct < 40 * total THEN 2
    ELSE IF 100 * correct < 60 * total THEN 3
    ELSE IF 100 * correct < 80 * total THEN 4
    ELSE 5

\* C14: for every assessment with at least one question, submit_assessment
\* stores as score the band of 100 * correct / total (1 below 20, 2 below 40,
\* 3 below 60, 4 below 80, else 5), a question counting as correct iff the
\* option id submitted for it equals its correct_answer_id ignoring case, an
\* unanswered question counting as incorrect.
C14_ScoreBands ==
    \A a \in DOMAIN assessments :
       (assessments[a].status = "completed" /\ Len(assessments[a].questions) >= 1) =>
          assessments[a].score =
             Some(1000 * Band(NumberCorrect(assessments[a]),
                              Len(assessments[a].questions)))

\* C14 for assessments whose questions all carry a correct_answer_id.
C14_ScoreBandsWithAnswerKeys ==
    \A a \in DOMAIN assessments :
       (/\ assessments[a].status = "completed"
        /\ \A k \in DOMAIN assessments[a].questions :
              assessments[a].questions[k].correct_answer_id # "") =>
          assessments[a].score =
             Some(1000 * Band(NumberCorrect(assessments[a]),
                              Len(assessments[a].questions)))

\* Every band is stored, the fourth from exactly 60 % (3 of 5).
C14_Bands ==
    /\ assessments[1].status = "completed"
    /\ Len(assessments[1].questions) = 5
    /\ NumberCorrect(assessments[1]) = 3
    /\ assessments[1].score = Some(4000)

\* The submit of assessment a that this step completes.
Completes(a) ==
    /\ a \in DOMAIN assessments
    /\ assessments[a].status = "pending"
    /\ assessments'[a].status = "completed"

\* The level C15 prescribes for the step that completes assessment a:
\* clamp(r, 0, 5) with r taken from the score and from updated_level, the level
\* of the theta the IRT update gives on the entry stored before the call.
PrescribedLevel(a) ==
    LET e == assessments[a].employee_id
        l == Graded(assessments, a, e, assessments'[a].answers[1])
        prior == IF e \in DOMAIN profiles THEN profiles[e] ELSE NoProfile
        updated_level == UpdatedState(prior, l.assessment_items, l.skill_id).level
        r == IF 100 * l.correct_count >= 80 * l.total_questions
             THEN Max(l.proficiency_score, updated_level)
             ELSE IF 100 * l.correct_count >= 60 * l.total_questions
             THEN Quot(l.proficiency_score + updated_level, 2)
             ELSE updated_level
    IN Max(0, Min(MaxLevel, r))

StoredLevel(profs, e, skill_id) ==
    IF e \in DOMAIN profs /\ skill_id \in DOMAIN profs[e]
    THEN Some(profs[e][skill_id].level)
    ELSE Null

\* C15: after a successful submit_assessment the level stored in the
\* employee's profile for the assessed skill is clamp(r, 0, 5), r = max(score,
\* updated_level) from 80 %, (score + updated_level)/2 from 60 %, updated_level
\* below; it replaces the previous level, and the same value is returned as
\* updated_proficiency.
C15_Reconciliation ==
    [][\A a \in DOMAIN assessments :
          (Completes(a) /\ ret'.op = "submit" /\ ret'.err = None) =>
             /\ StoredLevel(profiles', assessments[a].employee_id,
                            assessments[a].skill_id) = Some(PrescribedLevel(a))
             /\ ret'.updated_proficiency = PrescribedLevel(a)]_vars

\* C15 for the submits in which update_profile returned a profile.
C15_ReconciliationWhenEstimated ==
    [][\A a \in DOMAIN assessments :
          (/\ Completes(a) /\ ret'.op = "submit" /\ ret'.err = None
           /\ profileWrites'[a] > profileWrites[a]) =>
             /\ StoredLevel(profiles', assessments[a].employee_id,
                            assessments[a].skill_id) = Some(PrescribedLevel(a))
             /\ ret'.updated_proficiency = PrescribedLevel(a)]_vars

-----------------------------------------------------------------------------
(* The three writers of a cognitive profile: update_profile, submit_assessment *)
(* and the manual extraction of skills from an employee's description         *)

MaxUpdates == 2             \* profile updates outside assessments in one behaviour

\* The skills the extraction oracle returns for a description, each already
\* matched to a skill of the ontology: proficiency_level is the oracle's
\* number, fails says that processing the entry raises (no "name" key).
Extracted(skill_id, proficiency_level, fails) ==
    [skill_id |-> skill_id, proficiency_level |-> proficiency_level, fails |-> fails]

ExtractionReplies ==
    { << >>,
      << Extracted("s1", 4, FALSE) >>,
      << Extracted("s2", 3, TRUE), Extracted("s2", 2, FALSE) >>,
      << Extracted("s2", 7, FALSE) >>,
      << Extracted("s1", 0 - 1, FALSE), Extracted("s2", 0 - 1, FALSE) >> }

\* Lines 157-169: one extracted skill put into the profile.
StoredSkill(profile, skill_data) ==
    LET skill_id == skill_data.skill_id
        proficiency == skill_data.proficiency_level
        entry == [theta |-> (proficiency - 3) * 500, alpha |-> DefaultAlpha,
                  level |-> proficiency * 1000]
    IN IF skill_id \notin DOMAIN profile
       THEN [s \in DOMAIN profile \cup {skill_id} |->
                IF s = skill_id THEN entry ELSE profile[s]]
       ELSE IF proficiency * 1000 > profile[skill_id].level
       THEN [profile EXCEPT ![skill_id].level = entry.level,
                            ![skill_id].theta = entry.theta]
       ELSE profile

\* Lines 151-175: the loop over the extracted skills; a failing entry is skipped.
RECURSIVE StoredSkills(_, _, _)
StoredSkills(profile, extracted_skills, i) ==
    IF i > Len(extracted_skills) THEN profile
    ELSE IF extracted_skills[i].fails
    THEN StoredSkills(profile, extracted_skills, i + 1)
    ELSE StoredSkills(StoredSkill(profile, extracted_skills[i]), extracted_skills, i + 1)

matched_count(extracted_skills) ==
    Cardinality({ i \in DOMAIN extracted_skills : ~extracted_skills[i].fails })

\* extract_and_store_skills for a description that is not blank, with the
\* commit of the route that called it (PUT /profiles/{id}).
extract_and_store_skills(employee_id, extracted_skills) ==
    /\ UNCHANGED <<llm, assessments, clock, sub, profileWrites, successes>>
    /\ IF employee_id \notin DOMAIN profiles THEN
          /\ ret' = Raise("extract_and_store_skills", ErrEmployeeNotFound)
          /\ UNCHANGED profiles
       ELSE IF ~llm THEN
          /\ ret' = [op |-> "extract_and_store_skills", err |-> None,
                     extracted_skills |-> 0,
                     message |-> "OpenAI API key not configured"]
          /\ UNCHANGED profiles
       ELSE IF extracted_skills = << >> THEN
          /\ ret' = [op |-> "extract_and_store_skills", err |-> None,
                     extracted_skills |-> 0,
                     message |-> "No skills extracted from description"]
          /\ UNCHANGED profiles
       ELSE
          /\ profiles' = [profiles EXCEPT ![employee_id] =
                             StoredSkills(@, extracted_skills, 1)]
          /\ ret' = [op |-> "extract_and_store_skills", err |-> None,
                     extracted_skills |-> matched_count(extracted_skills),
                     message |-> "Stored skills"]

\* POST /profiles/{id}/cognitive-update
UpdateBatches ==
    { << [skill_id |-> "s1", difficulty |-> 2500, correct |-> TRUE] >>,
      << [skill_id |-> "s2", difficulty |-> 3500, correct |-> FALSE],
         [skill_id |-> "s1", difficulty |-> 1500, correct |-> FALSE] >>,
      << [skill_id |-> "s2", difficulty |-> 1000, correct |-> TRUE],
         [skill_id |-> "s2", difficulty |-> 4000, correct |-> TRUE] >> }

update_cognitive_profile(employee_id, items) ==
    LET r == update_profile(profiles, employee_id, items)
    IN /\ profiles' = r.profiles
       /\ ret' = [op |-> "update_profile", err |-> r.err, profile |-> r.profile,
                  employee_id |-> employee_id, items |-> items]
       /\ UNCHANGED <<llm, assessments, clock, sub, profileWrites, successes>>

\* a second employee, whose entries have a discrimination other than 1.0
OtherProfile == [s \in {"s1", "s2"} |-> [theta |-> 1000, alpha |-> 2000, level |-> 3333]]

InitProfile ==
    /\ llm \in BOOLEAN
    /\ profiles = [e \in EmployeeIds |-> IF e = "e1" THEN SeededProfile ELSE OtherProfile]
    /\ assessments = << NewAssessment("e1", "s1", <<Q1, Q2>>, 500) >>
    /\ clock = 0
    /\ ret = [op |-> "none", err |-> None]
    /\ sub = [r \in Requests |-> Idle]
    /\ profileWrites = [a \in 1..MaxAssessments |-> 0]
    /\ successes = [a \in 1..MaxAssessments |-> 0]
    /\ modules = << >>
    /\ path = Idle
    /\ calls = 0
    /\ required = << >>

CognitiveUpdate ==
    /\ calls < MaxUpdates
    /\ calls' = calls + 1
    /\ \E e \in EmployeeIds \cup {"e3"}, items \in UpdateBatches :
          update_cognitive_profile(e, items)
    /\ UNCHANGED <<modules, path, gvars>>

ExtractAndStore ==
    /\ calls < MaxUpdates
    /\ calls' = calls + 1
    /\ \E e \in EmployeeIds \cup {"e3"}, reply \in ExtractionReplies :
          extract_and_store_skills(e, reply)
    /\ UNCHANGED <<modules, path, gvars>>

NextProfile == CognitiveUpdate \/ ExtractAndStore \/ Submit

SpecProfile == InitProfile /\ [][NextProfile]_vars

InRange(entry) == 0 <= entry.level /\ entry.level <= MaxLevel /\ entry.alpha > 0

\* C18: in every reachable state, after any sequence of update_profile,
\* submit_assessment and extract_and_store_skills, every skill entry stored in
\* every employee's cognitive profile has level in [0,5] and alpha > 0.
C18_LevelAndAlphaInRange ==
    \A e \in DOMAIN profiles : \A s \in DOMAIN profiles[e] : InRange(profiles[e][s])

\* What the estimator and the assessment keep of C18: a step of update_profile
\* or submit_assessment leaves in range every entry it writes.
C18_EstimatorKeepsRange ==
    [][ret'.op \in {"update_profile", "submit"} =>
          \A e \in DOMAIN profiles' : \A s \in DOMAIN profiles'[e] :
             (e \notin DOMAIN profiles \/ s \notin DOMAIN profiles[e]
                 \/ profiles'[e][s] # profiles[e][s]) => InRange(profiles'[e][s])]_vars

-----------------------------------------------------------------------------
(* SkillExtractionService.extract_skills_for_goal: the required skills of a   *)
(* goal, extracted by the oracle and mapped to skills of the ontology         *)

RequiredSkill(skill_id, target_level) ==
    [skill_id |-> skill_id, target_level |-> target_level]

\* One skill of the oracle's list.  skill_id is the skill it is matched to, or
\* the new skill created for it when creates holds (ontology.create_skill,
\* which commits the session); fails is "match" when _match_or_create_skill
\* raises for it, "mapping" when the lines after it do (no "target_level"),
\* "no" otherwise.
ExtractedSkill(skill_id, target_level, creates, fails) ==
    [skill_id |-> skill_id, target_level |-> target_level,
     creates |-> creates, fails |-> fails]

Position(rows, skill_id) ==
    IF \E k \in DOMAIN rows : rows[k].skill_id = skill_id
    THEN CHOOSE k \in DOMAIN rows : rows[k].skill_id = skill_id
    ELSE 0

\* Lines 64-113 from the i-th extracted skill on.  store is the committed
\* table, session the table as the session sees it (pending rows included),
\* created the list built so far, skipped the number of skills whose
\* processing raised.
RECURSIVE ExtractLoop(_, _, _, _, _, _)
ExtractLoop(extracted, i, store, session, created, skipped) ==
    IF i > Len(extracted)
    THEN [store |-> session, created |-> created, skipped |-> skipped]   \* commit
    ELSE LET skill_data == extracted[i]
             \* create_skill commits what is pending
             store1 == IF skill_data.creates /\ skill_data.fails # "match"
                       THEN session ELSE store
             k == Position(session, skill_data.skill_id)
             row == RequiredSkill(skill_data.skill_id, skill_data.target_level)
         IN IF skill_data.fails # "no"
            THEN ExtractLoop(extracted, i + 1, store1, store1, created, skipped + 1)
            ELSE ExtractLoop(extracted, i + 1, store1,
                             IF k = 0 THEN Append(session, row)
                             ELSE [session EXCEPT ![k] = row],
                             Append(created, row), skipped)

ErrNoExtractionLLM == "LLM service not available"
ErrExtractionFailed == "Skill extraction failed"

\* What the extraction oracle does when asked: raises, or returns a list.
ExtractionOracle(raises, extracted) == [raises |-> raises, extracted |-> extracted]

\* extract_skills_for_goal as a function of the table: the error raised (None
\* if none), the table after the call, the list returned.
ExtractSkillsForGoal(rows, goal_found, has_llm, oracle) ==
    IF ~goal_found
    THEN [err |-> ErrGoalNotFound, required |-> rows, created |-> << >>, skipped |-> 0]
    ELSE IF rows # << >>
    THEN [err |-> None, required |-> rows, created |-> rows, skipped |-> 0]
    ELSE IF ~has_llm
    THEN [err |-> ErrNoExtractionLLM, required |-> rows, created |-> << >>, skipped |-> 0]
    ELSE IF oracle.raises
    THEN [err |-> ErrExtractionFailed, required |-> rows, created |-> << >>, skipped |-> 0]
    ELSE LET r == ExtractLoop(oracle.extracted, 1, rows, rows, << >>, 0)
         IN [err |-> None, required |-> r.store, created |-> r.created,
             skipped |-> r.skipped]

extract_skills_for_goal(goal_found, oracle) ==
    LET r == ExtractSkillsForGoal(required, goal_found, llm, oracle)
    IN /\ required' = r.required
       /\ ret' = [op |-> "extract_skills_for_goal", err |-> r.err,
                  created |-> r.created, skipped |-> r.skipped]
       /\ UNCHANGED <<llm, profiles, assessments, clock, sub, profileWrites,
                      successes, pvars>>

ExtractionBatches ==
    { << >>,
      << ExtractedSkill("s1", 4, FALSE, "no"), ExtractedSkill("s2", 3, FALSE, "no") >>,
      << ExtractedSkill("s1", 4, FALSE, "no"), ExtractedSkill("s2", 3, FALSE, "match") >>,
      << ExtractedSkill("s2", 5, FALSE, "mapping"), ExtractedSkill("s1", 2, FALSE, "no") >>,
      << ExtractedSkill("s1", 4, FALSE, "no"), ExtractedSkill("s9", 2, TRUE, "no"),
         ExtractedSkill("s2", 5, FALSE, "mapping") >>,
      << ExtractedSkill("s9", 3, TRUE, "mapping") >> }

ExtractionOracles ==
    { ExtractionOracle(TRUE, << >>) }
    \cup { ExtractionOracle(FALSE, b) : b \in ExtractionBatches }

-----------------------------------------------------------------------------
(* GapEngine.gaps_for_employee.  Levels and gaps are in tenths, similarity    *)
(* and gap_index in thousandths.                                              *)

MsgNoSkillsNoLLM == "No skills extracted for this goal. Please extract skills first"
MsgExtractionFailed == "Failed to extract skills"
MsgNothingExtracted == "No skills could be extracted for this goal"
MsgNotConfigured == "AI-powered gap analysis is required but OpenAI API key is not configured"
MsgAnalysisFailed == "AI-powered gap analysis failed"

\* What self.llm.analyze_skill_gaps gives the engine: kind is "ok" for a
\* dict, "falsy" for None or {}, "raises" when the call or the reading of the
\* dict raises.  A match is (required_skill, gap_value, match_confidence >=
\* 0.1), a missing skill (required_skill, gap_value).
AnalysisReply(kind, skill_matches, missing_skills) ==
    [kind |-> kind, skill_matches |-> skill_matches, missing_skills |-> missing_skills]

AnalysisReplies ==
    { AnalysisReply("falsy", << >>, << >>),
      AnalysisReply("raises", << >>, << >>),
      AnalysisReply("ok", << >>, << >>),
      AnalysisReply("ok", << <<"s1", 0, TRUE>> >>, << <<"s2", 30>> >>),
      AnalysisReply("ok", << <<"s1", 0, TRUE>>, <<"s2", 0, TRUE>> >>, << >>),
      AnalysisReply("ok", << <<"s2", 0 - 5, TRUE>>, <<"s1", 15, FALSE>> >>,
                          << <<"s7", 20>> >>) }

\* cosine of the two bundled embeddings, when the employee's is not zero
SimilarityInputs == { 0, 400, 700, 1000 }

\* dict[key] = value on a dict kept as a sequence of pairs in insertion order
DictSet(dict, key, value) ==
    IF \E k \in DOMAIN dict : dict[k][1] = key
    THEN [k \in DOMAIN dict |-> IF dict[k][1] = key THEN <<key, value>> ELSE dict[k]]
    ELSE Append(dict, <<key, value>>)

DictGet(dict, key, default) ==
    IF \E k \in DOMAIN dict : dict[k][1] = key
    THEN dict[CHOOSE k \in DOMAIN dict : dict[k][1] = key][2]
    ELSE default

\* Lines 251-265: required_levels, for the rows whose skill exists.
RequiredLevels(rows) == [k \in DOMAIN rows |-> <<rows[k].skill_id, 10 * rows[k].target_level>>]

\* Lines 308-330: current_levels as the analysis sets them.
RECURSIVE CurrentLevels(_, _, _, _)
CurrentLevels(rows, skill_matches, i, acc) ==
    IF i > Len(skill_matches) THEN acc
    ELSE LET match == skill_matches[i]
         IN IF match[3] /\ Position(rows, match[1]) # 0
            THEN CurrentLevels(rows, skill_matches, i + 1,
                     DictSet(acc, match[1],
                             Max(0, DictGet(RequiredLevels(rows), match[1], 0) - match[2])))
            ELSE CurrentLevels(rows, skill_matches, i + 1, acc)

\* Lines 375-397: the gaps the analysis names, for matches and missing skills.
RECURSIVE NamedGaps(_, _, _, _)
NamedGaps(rows, entries, i, acc) ==
    IF i > Len(entries) THEN acc
    ELSE IF Position(rows, entries[i][1]) # 0
    THEN NamedGaps(rows, entries, i + 1, DictSet(acc, entries[i][1], Max(0, entries[i][2])))
    ELSE NamedGaps(rows, entries, i + 1, acc)

\* Lines 400-403: every required skill without a gap gets required - current.
RECURSIVE RemainingGaps(_, _, _, _)
RemainingGaps(rows, current_levels, i, acc) ==
    IF i > Len(rows) THEN acc
    ELSE LET sid == rows[i].skill_id
         IN IF \E k \in DOMAIN acc : acc[k][1] = sid
            THEN RemainingGaps(rows, current_levels, i + 1, acc)
            ELSE RemainingGaps(rows, current_levels, i + 1,
                     Append(acc, <<sid, Max(0, 10 * rows[i].target_level
                                                 - DictGet(current_levels, sid, 0))>>))

RECURSIVE SumGaps(_, _)
SumGaps(scalar_gaps, i) ==
    IF i > Len(scalar_gaps) THEN 0 ELSE scalar_gaps[i][2] + SumGaps(scalar_gaps, i + 1)

\* Line 445, in thousandths (the 1e-8 added to the count is below the scale).
avg_gap(scalar_gaps) ==
    IF scalar_gaps = << >> THEN 0
    ELSE (100 * SumGaps(scalar_gaps, 1)) \div Len(scalar_gaps)

EarlyResult(message, analysis) ==
    [op |-> "gaps_for_employee", err |-> None, scalar_gaps |-> << >>,
     similarity |-> 0, gap_index |-> 0, message |-> message, analysis |-> analysis]

\* Lines 220-553: the analysis of a goal whose required skills are rows.
\* analysis records what became of the oracle: "unconfigured", "not_called",
\* "failed" or "ok".
Analysed(profile, rows, has_llm, reply, cosine) ==
    IF ~has_llm THEN EarlyResult(MsgNotConfigured, "unconfigured")
    ELSE IF DOMAIN profile = {} THEN EarlyResult(MsgAnalysisFailed, "not_called")
    ELSE IF reply.kind # "ok" THEN EarlyResult(MsgAnalysisFailed, "failed")
    ELSE LET current_levels ==
                 CurrentLevels(rows, reply.skill_matches, 1,
                               [k \in DOMAIN rows |-> <<rows[k].skill_id, 0>>])
             named == NamedGaps(rows, reply.skill_matches \o
                                      [k \in DOMAIN reply.missing_skills |->
                                          reply.missing_skills[k]],
                                1, << >>)
             scalar_gaps == RemainingGaps(rows, current_levels, 1, named)
             similarity == IF \A k \in DOMAIN current_levels : current_levels[k][2] = 0
                           THEN 0 ELSE cosine
         IN [op |-> "gaps_for_employee", err |-> None,
             scalar_gaps |-> scalar_gaps, similarity |-> similarity,
             gap_index |-> (1000 - similarity) + avg_gap(scalar_gaps),
             message |-> "", analysis |-> "ok"]

\* The whole call: its result, and the table of required skills after it.
GapsForEmployee(profs, rows, employee_id, goal_found, extraction_llm, gap_llm, oracle, reply, cosine) ==
    IF employee_id \notin DOMAIN profs
    THEN [ret |-> Raise("gaps_for_employee", ErrEmployeeNotFound), required |-> rows]
    ELSE IF ~goal_found
    THEN [ret |-> Raise("gaps_for_employee", ErrGoalNotFound), required |-> rows]
    ELSE IF rows # << >>
    THEN [ret |-> Analysed(profs[employee_id], rows, gap_llm, reply, cosine),
          required |-> rows]
    ELSE IF ~extraction_llm
    THEN [ret |-> EarlyResult(MsgNoSkillsNoLLM, "none"), required |-> rows]
    ELSE LET x == ExtractSkillsForGoal(rows, goal_found, extraction_llm, oracle)
         IN IF x.err # None
            THEN [ret |-> EarlyResult(MsgExtractionFailed, "none"), required |-> x.required]
            ELSE IF x.required = << >>
            THEN [ret |-> EarlyResult(MsgNothingExtracted, "none"), required |-> x.required]
            ELSE [ret |-> Analysed(profs[employee_id], x.required, gap_llm, reply, cosine),
                  required |-> x.required]

\* has_key says that the configured API key starts with "sk-": the engine's
\* own oracle handle needs it, the extraction service's does not.
gaps_for_employee(employee_id, goal_found, has_key, oracle, reply, cosine) ==
    LET r == GapsForEmployee(profiles, required, employee_id, goal_found, llm,
                             llm /\ has_key, oracle, reply, cosine)
    IN /\ ret' = IF r.ret.err = None
                  THEN r.ret @@ [employee_id |-> employee_id]   \* str(emp.employee_id)
                  ELSE r.ret
       /\ required' = r.required
       /\ UNCHANGED <<llm, profiles, assessments, clock, sub, profileWrites,
                      successes, pvars>>

RequiredInputs ==
    { << >>,
      << RequiredSkill("s1", 4), RequiredSkill("s2", 3) >>,
      << RequiredSkill("s2", 5) >>,
      << RequiredSkill("s1", 2), RequiredSkill("s9", 5) >> }

InitGaps ==
    /\ llm \in BOOLEAN
    /\ profiles = [e \in EmployeeIds |-> IF e = "e1" THEN SeededProfile ELSE NoProfile]
    /\ assessments = << >>
    /\ clock = 0
    /\ ret = [op |-> "none", err |-> None]
    /\ sub = [r \in Requests |-> Idle]
    /\ profileWrites = [a \in 1..MaxAssessments |-> 0]
    /\ successes = [a \in 1..MaxAssessments |-> 0]
    /\ modules = << >>
    /\ path = Idle
    /\ calls = 0
    /\ required \in RequiredInputs

Gaps ==
    \E e \in EmployeeIds \cup {"e3"}, goal_found \in BOOLEAN, has_key \in BOOLEAN,
       oracle \in ExtractionOracles, reply \in AnalysisReplies,
       cosine \in SimilarityInputs :
        gaps_for_employee(e, goal_found, has_key, oracle, reply, cosine)

ExtractSkills ==
    \E goal_found \in BOOLEAN, oracle \in ExtractionOracles :
        extract_skills_for_goal(goal_found, oracle)

NextGaps == Gaps \/ ExtractSkills

SpecGaps == InitGaps /\ [][NextGaps]_vars

Mean(scalar_gaps) ==
    IF scalar_gaps = << >> THEN 0
    ELSE (100 * SumGaps(scalar_gaps, 1)) \div Len(scalar_gaps)

AllGapsZero(scalar_gaps) == \A k \in DOMAIN scalar_gaps : scalar_gaps[k][2] = 0

GapResult == ret.op = "gaps_for_employee" /\ ret.err = None

\* C11: for every result gaps_for_employee returns, those of a goal without
\* required skills and of an unavailable analysis oracle included, gap_index
\* = (1 - similarity) + mean(scalar gaps), the mean of no gaps being 0; hence
\* gap_index is 0 iff similarity = 1 and every scalar gap is 0.
C11_GapIndexFormula ==
    GapResult =>
       /\ ret.gap_index = (1000 - ret.similarity) + Mean(ret.scalar_gaps)
       /\ ret.gap_index = 0 <=> (ret.similarity = 1000 /\ AllGapsZero(ret.scalar_gaps))

\* C11 for the results that carry an analysis.
C11_GapIndexFormulaAnalysed ==
    (GapResult /\ ret.analysis = "ok") =>
       /\ ret.gap_index = (1000 - ret.similarity) + Mean(ret.scalar_gaps)
       /\ ret.gap_index = 0 <=> (ret.similarity = 1000 /\ AllGapsZero(ret.scalar_gaps))

\* An analysed result with gap_index 0.
C11_ZeroIndexReached ==
    GapResult /\ ret.analysis = "ok" /\ ret.gap_index = 0

C12_NoRequirementsResultUnlessExtracted ==
    [][(/\ required = << >> /\ required' = << >>
        /\ ret'.op = "gaps_for_employee"
        /\ ret'.err \notin {ErrEmployeeNotFound, ErrGoalNotFound}) =>
           /\ ret'.err = None
           /\ ret'.scalar_gaps = << >>
           /\ ret'.similarity = 0
           /\ ret'.gap_index = 0
           /\ ret'.message # ""]_vars

\* C13: when the gap-analysis oracle is not configured or its call fails for
\* a goal that has required skills, gaps_for_employee fails with an error; it
\* never returns a normal result with empty scalar gaps and gap_index 0.
C13_OracleFailureIsAnError ==
    ~(/\ GapResult
      /\ ret.analysis \in {"unconfigured", "failed"}
      /\ ret.scalar_gaps = << >>
      /\ ret.gap_index = 0)

\* C19: when processing one extracted skill fails in extract_skills_for_goal,
\* every mapping of the returned list exists in the store after the call, and
\* the returned count is the number of mappings saved.
C19_ReturnedMappingsSaved ==
    (ret.op = "extract_skills_for_goal" /\ ret.err = None /\ ret.skipped > 0) =>
       /\ \A k \in DOMAIN ret.created :
             \E j \in DOMAIN required : required[j] = ret.created[k]
       /\ Len(ret.created) = Len(required)

\* C19 for the batches processed without a failure.
C19_ReturnedMappingsSavedNoFailure ==
    (ret.op = "extract_skills_for_goal" /\ ret.err = None /\ ret.skipped = 0) =>
       /\ \A k \in DOMAIN ret.created :
             \E j \in DOMAIN required : required[j] = ret.created[k]
       /\ Len(ret.created) = Len(required)

-----------------------------------------------------------------------------
(* When generate_learning_path stops *)

\* The call returns in this step (lines 208-238, after the while loop).
PathReturns == path.pc \in {"loop", "return"} /\ path'.pc = "idle"

\* An existing module, tagged with the skill or naming it in its metadata,
\* that is not in the plan and whose duration is within the remaining budget.
FittingModule(l, mods, kv) ==
    LET target_level == TargetLevel(l.profile, kv[1], kv[2])
        candidates == Range(TaggedModules(mods, kv[1], l.added_module_ids))
                         \union Range(FallbackModules(mods, kv[1], l.added_module_ids))
    IN \E id \in candidates :
          _calculate_module_duration(mods[id], target_level, kv[2])
             <= l.max_hours_minutes - l.total_minutes

\* A skill is tried when a round selects it: it then either receives an item
\* or is dropped from skills_sorted (line 201).  The skills not yet tried are
\* those still listed without an item in the plan.
NotYetTried(l, kv) ==
    /\ \E k \in DOMAIN l.skills_sorted : l.skills_sorted[k] = kv
    /\ \A i \in DOMAIN l.path_items : l.path_items[i].skill_id # kv[1]

\* C21: generate_learning_path never returns while the budget is not
\* exhausted and some not-yet-tried skill with a positive remaining gap has an
\* unused module that fits the remaining budget.
C21_NoEarlyReturn ==
    [][PathReturns =>
          \/ path.total_minutes >= path.max_hours_minutes
          \/ \A k \in DOMAIN path.skills_sorted :
                LET kv == path.skills_sorted[k]
                IN ~(kv[2] > 0 /\ NotYetTried(path, kv)
                               /\ FittingModule(path, modules, kv))]_vars

\* What the stall guard of lines 200-204 does ensure: a return with budget
\* left and an untried skill that has a fitting module comes only after
\* rounds that allocated nothing, at least as many as the skills left plus one.
C21_ReturnAfterStall ==
    [][PathReturns =>
          \/ path.total_minutes >= path.max_hours_minutes
          \/ path.iterations_without_progress > Len(path.skills_sorted)
          \/ \A k \in DOMAIN path.skills_sorted :
                LET kv == path.skills_sorted[k]
                IN ~(kv[2] > 0 /\ NotYetTried(path, kv)
                               /\ FittingModule(path, modules, kv))]_vars

-----------------------------------------------------------------------------
(* The duration of an item *)

\* The for loop is at a module that is not in the plan (lines 152-158).
Trying ==
    /\ path.pc = "for"
    /\ path.m <= Len(path.modules)
    /\ path.modules[path.m] \notin path.added_module_ids

\* What _calculate_module_duration gives for that module (line 158).
FullDuration ==
    _calculate_module_duration(modules[path.modules[path.m]], path.target_level,
                               path.gap_val)

\* remaining_minutes of line 161.
RemainingMinutes == path.max_hours_minutes - path.total_minutes

\* The item the step appends.
NewItem == path'.path_items[Len(path'.path_items)]

C22_WitnessSkipped ==
    /\ path.pc = "loop"
    /\ Len(path.path_items) = 1
    /\ path.gap_val > 0
    /\ path.max_hours_minutes - path.total_minutes > 0
    /\ path.max_hours_minutes - path.total_minutes < MinViableMinutes * TicksPerMinute

-----------------------------------------------------------------------------
(* The tracked remaining gap *)

\* The gap the gap engine reported for the skill.
InitialGap(l, skill_id) == l.scalar_gaps[Discovery(l, skill_id)][2]

\* The items of the plan allocated to the skill.
ItemsFor(l, skill_id) ==
    Cardinality({i \in DOMAIN l.path_items : l.path_items[i].skill_id = skill_id})

\* ceil(g / 0.5), g in tenths.
ItemLimit(g) == (g + GapStep - 1) \div GapStep

\* C23: each allocation lowers the selected skill's tracked remaining gap by
\* exactly 0.5 and leaves the other skills' gaps as they are; the remaining
\* gap of the selected skill is its initial gap minus 0.5 per item it already
\* has, and it is positive at every allocation; so no skill with initial gap g
\* has more than ceil(g / 0.5) items.
C23_HalfLevelPerItem ==
    [][/\ Allocates =>
            LET skill_id == path.skills_sorted[1][1]
            IN /\ path.gap_val = path.skills_sorted[1][2]
               /\ path.gap_val = InitialGap(path, skill_id)
                                    - GapStep * ItemsFor(path, skill_id)
               /\ path.gap_val > 0
               /\ NewItem.skill_id = skill_id
               /\ path'.gap_val = path.gap_val - GapStep
               /\ \/ path'.skills_sorted = Tail(path.skills_sorted)
                  \/ path'.skills_sorted =
                        [path.skills_sorted EXCEPT ![1] = <<skill_id, path'.gap_val>>]
       /\ path.pc # "idle" =>
            \A k \in DOMAIN path.scalar_gaps :
               ItemsFor(path, path.scalar_gaps[k][1])
                  <= ItemLimit(Max(0, path.scalar_gaps[k][2]))]_vars

\* A skill with initial gap 0.8 that has its two items, a long module and a
\* short one, and whose tracked gap is closed.
C23_Witness ==
    /\ path.pc = "loop"
    /\ \E k \in DOMAIN path.scalar_gaps :
          /\ path.scalar_gaps[k] = <<"s2", 8>>
          /\ ItemsFor(path, "s2") = 2
    /\ path.gap_val = 0 - 2
    /\ \E i, j \in DOMAIN path.path_items :
          /\ path.path_items[i].skill_id = "s2"
          /\ path.path_items[j].skill_id = "s2"
          /\ path.path_items[i].duration_minutes # path.path_items[j].duration_minutes

-----------------------------------------------------------------------------
(* The scalar gaps *)

\* _current_skill_level (lines 68-71) in tenths: the level stored for the
\* skill, else its theta, else 0.
_current_skill_level(profile, skill_id) ==
    IF skill_id \in DOMAIN profile THEN Quot(profile[skill_id].level, 100) ELSE 0

\* C24: in every result of gaps_for_employee each required skill s of the goal
\* has an entry, equal to max(0, T_s - C_s) with C_s the level stored for s in
\* the employee's profile (0 when absent), and every entry is >= 0.
C24_ScalarGapFromProfile ==
    GapResult =>
       /\ \A k \in DOMAIN required :
             \E j \in DOMAIN ret.scalar_gaps :
                ret.scalar_gaps[j] =
                   << required[k].skill_id,
                      Max(0, 10 * required[k].target_level
                               - _current_skill_level(profiles[ret.employee_id],
                                                      required[k].skill_id)) >>
       /\ \A j \in DOMAIN ret.scalar_gaps : ret.scalar_gaps[j][2] >= 0

\* C24 for the results that carry an analysis: the oracle answered, and the
\* entries are still not those of the formula.
C24_ScalarGapFromProfileAnalysed ==
    (GapResult /\ ret.analysis = "ok") =>
       \A k \in DOMAIN required :
          \E j \in DOMAIN ret.scalar_gaps :
             ret.scalar_gaps[j] =
                << required[k].skill_id,
                   Max(0, 10 * required[k].target_level
                            - _current_skill_level(profiles[ret.employee_id],
                                                   required[k].skill_id)) >>

\* What the code keeps of C24: an analysed result has exactly one entry per
\* required skill, between 0 and what the oracle or the target level gives.
C24_OneEntryPerRequiredSkill ==
    (GapResult /\ ret.analysis = "ok") =>
       /\ \A k \in DOMAIN required :
             \E j \in DOMAIN ret.scalar_gaps : ret.scalar_gaps[j][1] = required[k].skill_id
       /\ \A i, j \in DOMAIN ret.scalar_gaps :
             ret.scalar_gaps[i][1] = ret.scalar_gaps[j][1] => i = j
       /\ Len(ret.scalar_gaps) = Len(required)
       /\ \A j \in DOMAIN ret.scalar_gaps : ret.scalar_gaps[j][2] >= 0

-----------------------------------------------------------------------------
(* What gaps_for_employee writes *)

\* C25: gaps_for_employee is read-only: for every employee and goal, a goal
\* with zero required-skill rows included, the call leaves the required-skill
\* rows, the employee profiles and the learning modules as they were.
C25_ReadOnly ==
    [][ret'.op = "gaps_for_employee" =>
          /\ required' = required
          /\ profiles' = profiles
          /\ modules' = modules]_vars

\* C25 for the goals that have required skills, and for every call as far as
\* profiles and modules go.
C25_ReadOnlyWithRequirements ==
    [][ret'.op = "gaps_for_employee" =>
          /\ required # << >> => required' = required
          /\ profiles' = profiles
          /\ modules' = modules]_vars

-----------------------------------------------------------------------------
(* The questions of a persisted assessment *)

\* C26: in every persisted assessment the question_id values of the
\* questions are pairwise distinct, whatever list the oracle returned; and
\* the correct_answers map stored by submit has one entry per question.
C26_DistinctQuestionIds ==
    \A a \in DOMAIN assessments :
       /\ \A i, j \in DOMAIN assessments[a].questions :
             i # j => assessments[a].questions[i].question_id
                         # assessments[a].questions[j].question_id
       /\ assessments[a].status = "completed" =>
             Cardinality(DOMAIN assessments[a].correct_answers[1])
                = Len(assessments[a].questions)

\* What the "Remove duplicates" loop does ensure: the texts of the questions,
\* lowered and stripped, are pairwise distinct and none is empty.
C26_DistinctTexts ==
    \A a \in DOMAIN assessments :
       \A i, j \in DOMAIN assessments[a].questions :
          /\ strip(lower(assessments[a].questions[i].question)) # ""
          /\ i # j => strip(lower(assessments[a].questions[i].question))
                         # strip(lower(assessments[a].questions[j].question))

\* The oracle repeated a text and generation kept the first question only.
C26_DuplicateTextRemoved ==
    /\ Len(assessments) = 1
    /\ assessments[1].questions = <<Q1, Q2>>
    /\ assessments[1].status = "completed"
    /\ Cardinality(DOMAIN assessments[1].correct_answers[1]) = 2

-----------------------------------------------------------------------------
(* The difficulty band generate_assessment asks the oracle for *)

\* Line 71: difficulty_range = max(1, int(base - 0.5)) - min(5, int(base + 1.5)),
\* base_difficulty in thousandths.
difficulty_range(readiness_score) ==
    LET base_difficulty == BaseDifficulty(readiness_score)
    IN [low |-> Max(1, Quot(base_difficulty - 500, 1000)),
        high |-> Min(5, Quot(base_difficulty + 1500, 1000))]

\* readiness scores in [0, 1], in thousandths, around the values where the
\* band changes (1/6, 1/2, 5/6)
BandReadinessInputs ==
    { 0, 1, 166, 167, 250, 333, 499, 500, 501, 666, 833, 834, 999, 1000 }

InitBand ==
    /\ llm = TRUE
    /\ profiles = << >>
    /\ assessments = << >>
    /\ clock = 0
    /\ sub = [r \in Requests |-> Idle]
    /\ profileWrites = << >>
    /\ successes = << >>
    /\ modules = << >>
    /\ path = Idle
    /\ calls = 0
    /\ required = << >>
    /\ \E r1 \in BandReadinessInputs, r2 \in BandReadinessInputs :
          ret = [op |-> "input", err |-> None, fn |-> "difficulty_range",
                 r1 |-> r1, r2 |-> r2]

\* Lines 70-71 applied to two readiness scores.
DeriveBand ==
    /\ ret.op = "input" /\ ret.fn = "difficulty_range"
    /\ ret' = [op |-> "difficulty_range", err |-> None, r1 |-> ret.r1, r2 |-> ret.r2,
               band1 |-> difficulty_range(ret.r1), band2 |-> difficulty_range(ret.r2)]
    /\ UNCHANGED <<llm, profiles, assessments, clock, sub, profileWrites, successes,
                   pvars, gvars>>

NextBand == DeriveBand

SpecBand == InitBand /\ [][NextBand]_vars

\* C28: for readiness scores r1 < r2 in [0,1] the band derived for r1 is no
\* harder than the band derived for r2 (lower bound and upper bound each <=
\* those for r2), and every band satisfies 1 <= low <= high <= 5.
C28_EasierForLowerReadiness ==
    ret.op = "difficulty_range" =>
       /\ ret.r1 < ret.r2 => /\ ret.band1.low <= ret.band2.low
                             /\ ret.band1.high <= ret.band2.high
       /\ 1 <= ret.band1.low /\ ret.band1.low <= ret.band1.high /\ ret.band1.high <= 5

\* What the code does: every band is within 1..5 and in order, and the band
\* of the lower readiness is the harder or equal one.
C28_HarderForLowerReadiness ==
    ret.op = "difficulty_range" =>
       /\ ret.r1 < ret.r2 => /\ ret.band1.low >= ret.band2.low
                             /\ ret.band1.high >= ret.band2.high
       /\ 1 <= ret.band1.low /\ ret.band1.low <= ret.band1.high /\ ret.band1.high <= 5

\* Readiness 0 gives the band 3-5 and readiness 1 the band 1-2.
C28_BandsAtTheEnds ==
    /\ ret.op = "difficulty_range"
    /\ ret.r1 = 0 /\ ret.band1 = [low |-> 3, high |-> 5]
    /\ ret.r2 = 1000 /\ ret.band2 = [low |-> 1, high |-> 2]

-----------------------------------------------------------------------------
(* What generate_assessment persists *)

\* The shape the oracle is asked for: exactly 4 options and a correct answer
\* id that is one of them (ids compared as grading does, case ignored).
Conforms(q) ==
    /\ Len(q.options) = 4
    /\ \E k \in DOMAIN q.options : lower(q.options[k]) = lower(q.correct_answer_id)

\* C27: an assessment is persisted only for a conforming oracle output, a
\* non-empty questions list whose questions all have exactly 4 options and a
\* correct_answer_id among them; for any other output generate_assessment
\* fails and creates no record.
C27_OnlyConformingPersisted ==
    \A a \in DOMAIN assessments :
       /\ assessments[a].questions # << >>
       /\ \A k \in DOMAIN assessments[a].questions :
             Conforms(assessments[a].questions[k])

\* The part of C27 the code keeps: text that is not JSON makes the call fail
\* and no record is created.
C27_UnparseableRejected ==
    [][(ret'.op = "generate" /\ ret'.err = ErrInvalidJSON) =>
          assessments' = assessments]_vars

-----------------------------------------------------------------------------
(* What a profile update leaves alone *)

\* The skills that occur in a batch of responses.
BatchSkills(items) == { items[k].skill_id : k \in DOMAIN items }

\* The step changes, in the table of profiles, nothing but entries of the
\* given skills of the given employee.
OnlyTouches(employee_id, skills) ==
    /\ DOMAIN profiles' = DOMAIN profiles
    /\ \A e \in DOMAIN profiles :
          /\ e # employee_id => profiles'[e] = profiles[e]
          /\ DOMAIN profiles[e] \subseteq DOMAIN profiles'[e]
          /\ DOMAIN profiles'[e] \subseteq DOMAIN profiles[e] \cup skills
          /\ \A s \in DOMAIN profiles[e] \ skills : profiles'[e][s] = profiles[e][s]

\* C29: update_profile for employee E with a batch changes only E's profile
\* and in it only the entries of the skills of the batch; the alpha of an
\* updated skill is unchanged, and a skill absent before the call is updated
\* from theta = 0, alpha = 1, level = 0; a successful submit_assessment changes
\* only the entry of the assessed skill.
C29_UpdateFrame ==
    [][/\ (ret'.op = "update_profile" /\ ret'.err = None) =>
            LET E == ret'.employee_id
                batch == BatchSkills(ret'.items)
            IN /\ OnlyTouches(E, batch)
               /\ DOMAIN profiles'[E] = DOMAIN profiles[E] \cup batch
               /\ \A s \in batch \cap DOMAIN profiles[E] :
                     profiles'[E][s].alpha = profiles[E][s].alpha
               /\ \A s \in batch \ DOMAIN profiles[E] :
                     LET mine == ItemsOf(ret'.items, s)
                         responses == [k \in 1..Len(mine) |->
                                          <<1000, mine[k].difficulty, mine[k].correct>>]
                     IN /\ profiles'[E][s].alpha = 1000
                        /\ profiles'[E][s].theta = _update_theta(0, responses)
       /\ (ret'.op = "submit" /\ ret'.err = None) =>
            OnlyTouches(ret'.employee_id, {ret'.skill_id})]_vars

\* An update of e1 with responses for s2 alone: s2 is new in the profile, with
\* alpha 1.0 and a theta moved off 0, and the entry of s1 is the seeded one.
C29_Witness ==
    /\ ret.op = "update_profile" /\ ret.err = None
    /\ ret.employee_id = "e1"
    /\ BatchSkills(ret.items) = {"s2"}
    /\ profiles["e1"]["s1"] = SeededProfile["s1"]
    /\ "s2" \in DOMAIN profiles["e1"]
    /\ profiles["e1"]["s2"].alpha = DefaultAlpha
    /\ profiles["e1"]["s2"].theta # 0
    /\ profiles["e2"] = OtherProfile

\* A submit that moved the entry of the assessed skill in a profile that
\* holds another skill, which it left alone.
C29_WitnessSubmit ==
    /\ ret.op = "submit" /\ ret.err = None
    /\ ret.skill_id = "s1"
    /\ DOMAIN profiles[ret.employee_id] = {"s1", "s2"}
    /\ profiles[ret.employee_id]["s1"] # SeededProfile["s1"]

-----------------------------------------------------------------------------
(* The modules a call synthesizes *)

\* The rows _generate_module_for_skill stored (lines 313-331): generated, with
\* the skill as their tag and a duration.  The catalogues a behaviour starts
\* from hold no such row, so during its first call they are that call's own.
Synthesized(mods) ==
    { id \in DOMAIN mods : /\ mods[id].is_generated
                           /\ mods[id].skills # {}
                           /\ mods[id].duration_minutes # Null }

\* C30: every learning module that a generate_learning_path call synthesizes
\* and persists is an item of the plan the call returns.
C30_SynthesizedModulesInPlan ==
    [][(PathReturns /\ calls = 1) =>
          \A id \in Synthesized(modules) :
             \E i \in DOMAIN ret'.items : ret'.items[i].module_id = id]_vars

\* What the code ensures: a synthesized module is left out of the plan only
\* when fewer than 15 minutes of budget remained.
C30_LeftOutOnlyForLackOfBudget ==
    [][(PathReturns /\ calls = 1) =>
          \A id \in Synthesized(modules) :
             \/ \E i \in DOMAIN ret'.items : ret'.items[i].module_id = id
             \/ path.max_hours_minutes - path.total_minutes
                   < MinViableMinutes * TicksPerMinute]_vars

\* A returned plan that holds a module synthesized during the call.
C30_SynthesizedInPlanReached ==
    /\ Returned
    /\ calls = 1
    /\ \E i \in DOMAIN ret.items :
          ret.items[i].is_generated /\ ret.items[i].module_id \in Synthesized(modules)

====
